---- MODULE Spec2Model ----
(***************************************************************************)
(* RyAuth: AuthService (register / login / refresh with refresh-token      *)
(* rotation and breach detection) over the MemoryAdapter store and the     *)
(* JWT codec of core/crypto.js.                                            *)
(*                                                                         *)
(* Every `await` of the service is one step of a call, so concurrent calls *)
(* interleave between their awaited store and codec operations, as the     *)
(* promises of a Node.js process do.                                       *)
(*                                                                         *)
(* Time: `now` is Date.now() on a scaled clock.  MsPerSec clock ticks make *)
(* one JWT second (jose truncates Date.now() to whole seconds for iat/exp  *)
(* and for the expiry check); the token lifetimes are scaled to a few JWT  *)
(* seconds so that expiry is reachable.                                    *)
(***************************************************************************)
EXTENDS Integers, Sequences, FiniteSets, TLC

\* ------------------------------------------------------------------ bounds
MaxClock == 5          \* the clock stops ticking here
MaxJti == 6            \* tokens signed in one behaviour (fresh randomUUID jti)
MaxJtiTime == 8        \* the same, where one call runs at a time
MaxJtiCodec == 3       \* the same, where the token codec is called directly
MaxJtiExpiry == 4      \* the same, for the calls of the expiry specification
MaxJtiMiddleware == 2  \* the same, for the logins whose tokens reach the middleware
MaxJtiOutage == 6      \* the same, where the secrets change while calls run

\* ------------------------------------------------------- program constants
MsPerSec == 2          \* clock ticks per JWT second (* 1000), scaled
MinSecretLen == 32     \* secret.length < 32
MinTokenLen == 10      \* refreshSchema: min(10)
MinPasswordLen == 8    \* registerSchema: min(8)
AccessTTLSec == 1      \* setExpirationTime('15m'), scaled
RefreshTTLSec == 2     \* setExpirationTime('7d'), scaled
\* 7 * 24 * 60 * 60 * 1000: the same seven days in clock ticks
RefreshTTLMs == RefreshTTLSec * MsPerSec

\* Two service calls can be in flight together
Calls == {1, 2}

\* ------------------------------------------------------------------ inputs
GoodEmails == {"a@example.com", "b@example.com"}
BadEmail == "invalid-email"
Emails == GoodEmails \cup {BadEmail}
Passwords == {"password123", "wrongpassword", "short", ""}
RegisterPasswords == {"password123", "password456", "short"}
Roles == {"user", "admin"}

AccessSecret == "test_access_secret_32_characters_long"
RefreshSecret == "test_refresh_secret_32_characters_long"
\* secrets at the boundary of the length check: 31 and 32 characters
Secret31 == "boundary_secret_of_31_character"
Secret32 == "boundary_secret_of_32_characters"
\* sixteen characters of two UTF-8 bytes each (written here in ASCII)
TwoByteSecret == "EEEEEEEEEEEEEEEE"
\* process.env as the token codec reads it: an absent variable encodes to
\* the empty byte string
Secrets == {"", "short", Secret31, Secret32, TwoByteSecret, AccessSecret, RefreshSecret}
\* new TextEncoder().encode(secret).length: the length in UTF-8 bytes
EncodedLength(secret) == IF secret = TwoByteSecret THEN 2 * Len(secret) ELSE Len(secret)
Envs == {[ACCESS_TOKEN_SECRET |-> "", REFRESH_TOKEN_SECRET |-> RefreshSecret],
         [ACCESS_TOKEN_SECRET |-> "short", REFRESH_TOKEN_SECRET |-> RefreshSecret],
         [ACCESS_TOKEN_SECRET |-> AccessSecret, REFRESH_TOKEN_SECRET |-> ""],
         [ACCESS_TOKEN_SECRET |-> AccessSecret, REFRESH_TOKEN_SECRET |-> "short"],
         [ACCESS_TOKEN_SECRET |-> AccessSecret, REFRESH_TOKEN_SECRET |-> RefreshSecret],
         [ACCESS_TOKEN_SECRET |-> RefreshSecret, REFRESH_TOKEN_SECRET |-> RefreshSecret],
         [ACCESS_TOKEN_SECRET |-> Secret32, REFRESH_TOKEN_SECRET |-> RefreshSecret],
         [ACCESS_TOKEN_SECRET |-> AccessSecret, REFRESH_TOKEN_SECRET |-> Secret31],
         [ACCESS_TOKEN_SECRET |-> Secret31, REFRESH_TOKEN_SECRET |-> Secret32],
         [ACCESS_TOKEN_SECRET |-> TwoByteSecret, REFRESH_TOKEN_SECRET |-> RefreshSecret]}

\* -------------------------------------------------------------- null values
NoHash == [alg |-> "", salt |-> 0, plain |-> ""]
NoUser == [id |-> 0, email |-> "", hashedPassword |-> NoHash, role |-> "", createdAt |-> 0]
NoToken == [form |-> "none", sig |-> "", userId |-> 0, role |-> "", iat |-> 0, exp |-> 0, jti |-> 0]
NoPayload == [userId |-> 0, role |-> "", iat |-> 0, exp |-> 0, jti |-> 0]
\* What a call returned: `userId` is register's, `user` the user object of a
\* result (no return statement of the service has one)
NoResult == [status |-> "none", error |-> "", accessToken |-> NoToken, refreshToken |-> NoToken,
             userId |-> 0, user |-> NoUser]

\* Strings that are not JWTs: 'invalid-token' (13 characters) and 'short'
GarbageToken == [NoToken EXCEPT !.form = "garbage"]
ShortToken == [NoToken EXCEPT !.form = "short"]
\* A well-formed JWT for user 1 signed with a key of the attacker's
ForgedToken == [form |-> "jwt", sig |-> "attacker_secret_32_characters_long__", userId |-> 1,
                role |-> "admin", iat |-> 0, exp |-> MaxClock + 1, jti |-> 0]

\* signRefreshToken({userId: 1}) under the configured refresh secret, held by
\* a client but in no store: signed with the exported function, or saved in
\* a MemoryAdapter that a restart has since replaced
StaleToken == [form |-> "jwt", sig |-> RefreshSecret, userId |-> 1, role |-> "",
               iat |-> 0, exp |-> RefreshTTLSec, jti |-> 0]

TokenLen(t) == IF t.form = "short" THEN 5 ELSE IF t.form = "garbage" THEN 13 ELSE 200

Ok(r) == [status |-> "ok", error |-> "", accessToken |-> r.accessToken,
          refreshToken |-> r.refreshToken, userId |-> r.userId, user |-> NoUser]
Err(msg) == [NoResult EXCEPT !.status = "error", !.error = msg]

\* ------------------------------------------------------- zod input schemas
IsEmail(e) == e \in GoodEmails

registerSchema(email, password) ==
  IF ~IsEmail(email) THEN "Invalid email"
  ELSE IF Len(password) < MinPasswordLen THEN "Password must be at least 8 characters"
  ELSE ""

loginSchema(email, password) ==
  IF ~IsEmail(email) THEN "Invalid email"
  ELSE IF Len(password) < 1 THEN "Password is required"
  ELSE ""

\* faulty variant: the minimum length is 5
refreshSchema_Min5(refreshToken) ==
  IF TokenLen(refreshToken) < 5 THEN "Refresh token is required" ELSE ""

refreshSchema(refreshToken) ==
  IF TokenLen(refreshToken) < MinTokenLen THEN "Refresh token is required" ELSE ""

\* ------------------------------------------------------------ core/crypto.js
\* argon2.hash: a salted one-way blob, never the password string itself
\* a string that is no argon2 blob, as it would sit in a hashedPassword field
RawString(str) == [alg |-> "", salt |-> 0, plain |-> str]

\* faulty variant: the password is stored as it was given
hashPassword_Plain(plain, salt) == RawString(plain)

hashPassword(plain, salt) == [alg |-> "argon2id", salt |-> salt, plain |-> plain]
verifyPassword(hash, plain) == hash.alg = "argon2id" /\ hash.plain = plain
\* the fixed decoy hash of login: the hash of a password nobody supplies
DummyHash == [alg |-> "argon2id", salt |-> 0, plain |-> "<decoy>"]

\* jose's epoch(): Math.floor(date.getTime() / 1000)
Epoch(t) == t \div MsPerSec

SecretError(kind) ==
  IF kind = "access" THEN "ACCESS_TOKEN_SECRET must be at least 32 characters"
  ELSE "REFRESH_TOKEN_SECRET must be at least 32 characters"

\* faulty variant: the token carries no unique id
SignJWT_NoJti(payload, secret, ttl, t, jti) ==
  [form |-> "jwt", sig |-> secret, userId |-> payload.userId, role |-> payload.role,
   iat |-> Epoch(t), exp |-> Epoch(t) + ttl, jti |-> 0]

SignJWT(payload, secret, ttl, t, jti) ==
  [form |-> "jwt", sig |-> secret, userId |-> payload.userId, role |-> payload.role,
   iat |-> Epoch(t), exp |-> Epoch(t) + ttl, jti |-> jti]

\* faulty variant: a secret of exactly 32 is refused
signAccessToken_OffByOne(payload, e, t, jti) ==
  IF EncodedLength(e.ACCESS_TOKEN_SECRET) <= MinSecretLen
  THEN [err |-> SecretError("access"), token |-> NoToken]
  ELSE [err |-> "", token |-> SignJWT(payload, e.ACCESS_TOKEN_SECRET, AccessTTLSec, t, jti)]

signAccessToken(payload, e, t, jti) ==
  IF EncodedLength(e.ACCESS_TOKEN_SECRET) < MinSecretLen
  THEN [err |-> SecretError("access"), token |-> NoToken]
  ELSE [err |-> "", token |-> SignJWT(payload, e.ACCESS_TOKEN_SECRET, AccessTTLSec, t, jti)]

\* faulty variant: the token outlives the record login and refresh persist
signRefreshToken_LongTTL(payload, e, t, jti) ==
  IF EncodedLength(e.REFRESH_TOKEN_SECRET) < MinSecretLen
  THEN [err |-> SecretError("refresh"), token |-> NoToken]
  ELSE [err |-> "",
        token |-> SignJWT(payload, e.REFRESH_TOKEN_SECRET, RefreshTTLSec + 2, t, jti)]

signRefreshToken(payload, e, t, jti) ==
  IF EncodedLength(e.REFRESH_TOKEN_SECRET) < MinSecretLen
  THEN [err |-> SecretError("refresh"), token |-> NoToken]
  ELSE [err |-> "", token |-> SignJWT(payload, e.REFRESH_TOKEN_SECRET, RefreshTTLSec, t, jti)]

\* faulty variant: a token is still accepted during the second of its exp
jwtVerify_Inclusive(token, secret, t) ==
  token.form = "jwt" /\ token.sig = secret /\ token.exp >= Epoch(t)

\* jose's jwtVerify with algorithms ['HS256']: the compact form parses, the
\* HMAC matches the key, and exp is later than the current second
jwtVerify(token, secret, t) ==
  token.form = "jwt" /\ token.sig = secret /\ token.exp > Epoch(t)

PayloadOf(token) ==
  [userId |-> token.userId, role |-> token.role, iat |-> token.iat,
   exp |-> token.exp, jti |-> token.jti]

\* faulty variant: one secret verifies both kinds
verifyJWT_OneSecret(token, type, e, t) ==
  LET secret == e.ACCESS_TOKEN_SECRET
  IN IF EncodedLength(secret) < MinSecretLen
     THEN [err |-> SecretError(type), payload |-> NoPayload]
     ELSE IF jwtVerify(token, secret, t)
          THEN [err |-> "", payload |-> PayloadOf(token)]
          ELSE [err |-> "Invalid token", payload |-> NoPayload]

\* faulty variant: the signature is not checked against the secret
verifyJWT_AnyKey(token, type, e, t) ==
  LET secret == IF type = "access" THEN e.ACCESS_TOKEN_SECRET ELSE e.REFRESH_TOKEN_SECRET
  IN IF EncodedLength(secret) < MinSecretLen
     THEN [err |-> SecretError(type), payload |-> NoPayload]
     ELSE IF token.form = "jwt" /\ token.exp > Epoch(t)
          THEN [err |-> "", payload |-> PayloadOf(token)]
          ELSE [err |-> "Invalid token", payload |-> NoPayload]

verifyJWT(token, type, e, t) ==
  LET secret == IF type = "access" THEN e.ACCESS_TOKEN_SECRET ELSE e.REFRESH_TOKEN_SECRET
  IN IF EncodedLength(secret) < MinSecretLen
     THEN [err |-> SecretError(type), payload |-> NoPayload]
     ELSE IF jwtVerify(token, secret, t)
          THEN [err |-> "", payload |-> PayloadOf(token)]
          ELSE [err |-> "Invalid token", payload |-> NoPayload]

\* ------------------------------------------------------------ MemoryAdapter
\* The adapter is [users, refreshTokens, revokedTokens, implements]: the two
\* Maps as functions on their key sets, the Set as a set.
\* `implements` names the methods the adapter's class defines itself; the
\* others it inherits from BaseAdapter, where every method throws.
\* MemoryAdapter defines all six methods of BaseAdapter
AdapterMethods == {"findUserByEmail", "createUser", "saveRefreshToken", "isRefreshTokenValid",
                   "revokeRefreshToken", "revokeAllUserSessions"}
\* The methods the README lists as required of an adapter
ReadmeMethods == {"findUserByEmail", "createUser", "saveRefreshToken", "findRefreshToken",
                  "revokeRefreshToken", "isRefreshTokenRevoked"}
NotImplemented(method) == "Method " \o method \o "() must be implemented"

EmptyAdapter == [users |-> <<>>, refreshTokens |-> <<>>, revokedTokens |-> {},
                 implements |-> AdapterMethods]
\* An adapter that extends BaseAdapter with the README's methods, each
\* behaving as MemoryAdapter's does
ReadmeAdapter == [EmptyAdapter EXCEPT !.implements = ReadmeMethods]

findUserByEmail(a, email) ==
  IF email \in DOMAIN a.users THEN a.users[email] ELSE NoUser

\* faulty variant: an existing email is not refused, the record is replaced
createUser_Overwrite(a, email, hashedPassword, role, id, t) ==
  LET user == [id |-> id, email |-> email, hashedPassword |-> hashedPassword,
               role |-> IF role = "" THEN "user" ELSE role, createdAt |-> t]
  IN [err |-> "", user |-> user,
      adapter |-> [a EXCEPT !.users =
                     [m \in DOMAIN a.users \cup {email} |->
                        IF m = email THEN user ELSE a.users[m]]]]

\* userSchema defaults role to 'user' when the caller gives none
createUser(a, email, hashedPassword, role, id, t) ==
  IF email \in DOMAIN a.users
  THEN [err |-> "User with this email already exists", user |-> NoUser, adapter |-> a]
  ELSE LET user == [id |-> id, email |-> email, hashedPassword |-> hashedPassword,
                    role |-> IF role = "" THEN "user" ELSE role, createdAt |-> t]
       IN [err |-> "", user |-> user,
           adapter |-> [a EXCEPT !.users =
                          [m \in DOMAIN a.users \cup {email} |->
                             IF m = email THEN user ELSE a.users[m]]]]

\* Arguments of another JavaScript type: a number given as userId (123), a
\* number given as token (123), a string given as expiresAt ('not-a-date')
NumberId == -1
NumberToken == [NoToken EXCEPT !.form = "number"]
NotADate == -1
\* typeof userId !== 'string' || typeof token !== 'string' || !(expiresAt instanceof Date)
IllTyped(userId, token, expiresAt) ==
  userId = NumberId \/ token = NumberToken \/ expiresAt = NotADate

\* faulty variant: the record is not written
saveRefreshToken_Discarded(a, userId, token, expiresAt) ==
  IF TokenLen(token) < MinTokenLen
  THEN [err |-> "Token too short", adapter |-> a]
  ELSE [err |-> "", adapter |-> a]

\* faulty variant: the revocation is cleared before the parameters are
\* validated
saveRefreshToken_ClearsFirst(a, userId, token, expiresAt) ==
  LET cleared == [a EXCEPT !.revokedTokens = @ \ {token}]
  IN IF IllTyped(userId, token, expiresAt)
     THEN [err |-> "Invalid parameters", adapter |-> cleared]
     ELSE IF TokenLen(token) < MinTokenLen
     THEN [err |-> "Token too short", adapter |-> cleared]
     ELSE [err |-> "",
           adapter |-> [cleared EXCEPT
             !.refreshTokens = [k \in DOMAIN a.refreshTokens \cup {token} |->
                                  IF k = token THEN [userId |-> userId, expiresAt |-> expiresAt]
                                  ELSE a.refreshTokens[k]]]]

saveRefreshToken(a, userId, token, expiresAt) ==
  IF IllTyped(userId, token, expiresAt)
  THEN [err |-> "Invalid parameters", adapter |-> a]
  ELSE IF TokenLen(token) < MinTokenLen
  THEN [err |-> "Token too short", adapter |-> a]
  ELSE [err |-> "",
        adapter |-> [a EXCEPT
          !.refreshTokens = [k \in DOMAIN a.refreshTokens \cup {token} |->
                               IF k = token THEN [userId |-> userId, expiresAt |-> expiresAt]
                               ELSE a.refreshTokens[k]],
          !.revokedTokens = @ \ {token}]]

isRefreshTokenValid(a, token, t) ==
  IF token \notin DOMAIN a.refreshTokens THEN FALSE
  ELSE IF token \in a.revokedTokens THEN FALSE
  ELSE IF a.refreshTokens[token].expiresAt < t THEN FALSE
  ELSE TRUE

\* faulty variant: revoking a revoked token makes it live again
revokeRefreshToken_Toggle(a, token) ==
  IF token \in a.revokedTokens THEN [a EXCEPT !.revokedTokens = @ \ {token}]
  ELSE [a EXCEPT !.revokedTokens = @ \cup {token}]

\* faulty variant: the token is not added to the revoked set
revokeRefreshToken_Skipped(a, token) == a

\* faulty variant: the revoked set is replaced, earlier revocations are lost
revokeRefreshToken_ClearsOthers(a, token) ==
  [a EXCEPT !.revokedTokens = {token}]

\* faulty variant: every token of the token's owner is revoked with it
revokeRefreshToken_WholeUser(a, token) ==
  [a EXCEPT !.revokedTokens =
     @ \cup {token}
       \cup {u \in DOMAIN a.refreshTokens :
               /\ token \in DOMAIN a.refreshTokens
               /\ a.refreshTokens[u].userId = a.refreshTokens[token].userId}]

revokeRefreshToken(a, token) ==
  [a EXCEPT !.revokedTokens = @ \cup {token}]

\* faulty variant: the revocation of each of the user's tokens is flipped
revokeAllUserSessions_Flip(a, userId) ==
  LET mine == {k \in DOMAIN a.refreshTokens : a.refreshTokens[k].userId = userId}
  IN [a EXCEPT !.revokedTokens = (@ \ mine) \cup (mine \ @)]

\* faulty variant: every token of the store is revoked
revokeAllUserSessions_Everyone(a, userId) ==
  [a EXCEPT !.revokedTokens = @ \cup DOMAIN a.refreshTokens]

\* faulty variant: the revoked set is replaced by the user's tokens
revokeAllUserSessions_Replace(a, userId) ==
  [a EXCEPT !.revokedTokens =
     {k \in DOMAIN a.refreshTokens : a.refreshTokens[k].userId = userId}]

\* faulty variant: the owner comparison is inverted
revokeAllUserSessions_Inverted(a, userId) ==
  [a EXCEPT !.revokedTokens =
     @ \cup {k \in DOMAIN a.refreshTokens : a.refreshTokens[k].userId # userId}]

\* faulty variant: the loop stops at the first token of the user (the Map
\* iterates in insertion order, the oldest token first)
revokeAllUserSessions_FirstOnly(a, userId) ==
  LET mine == {k \in DOMAIN a.refreshTokens : a.refreshTokens[k].userId = userId}
  IN IF mine = {} THEN a
     ELSE [a EXCEPT !.revokedTokens =
             @ \cup {CHOOSE k \in mine : \A j \in mine : k.jti <= j.jti}]

revokeAllUserSessions(a, userId) ==
  [a EXCEPT !.revokedTokens =
     @ \cup {k \in DOMAIN a.refreshTokens : a.refreshTokens[k].userId = userId}]


\* --------------------------------------------------------- middleware/auth.js
\* importJWK({k, kty: 'oct'}) takes k as the base64url text of the key: the
\* key is the decoded bytes, never the UTF-8 bytes of k that the service's
\* TextEncoder gives
importJWK(k) == "base64url-decoded:" \o k

\* The Authorization headers of a request
NoHeader == [scheme |-> "", token |-> NoToken]
Bearer(t) == [scheme |-> "Bearer", token |-> t]
Basic(t) == [scheme |-> "Basic", token |-> t]

\* #extractToken: null unless the header starts with 'Bearer '
extractToken(header) == IF header.scheme = "Bearer" THEN header.token ELSE NoToken

\* req.user before any middleware has set it
NoReqUser == [userId |-> 0, email |-> "", role |-> "", iat |-> 0, exp |-> 0]

\* The claims of a JWT: everything the token carries but its form and
\* signature; a claim given as undefined is not in the JSON
ClaimsOf(token) ==
  LET present == {f \in DOMAIN token \ {"form", "sig"} : f = "role" => token[f] # ""}
  IN [f \in present |-> token[f]]

\* userPayloadSchema.parse: the five keys are required, email must be an
\* email address, and keys the schema does not name are stripped
userPayloadSchema(payload) ==
  IF /\ {"userId", "email", "role", "iat", "exp"} \subseteq DOMAIN payload
     /\ IsEmail(payload.email)
  THEN [userId |-> payload.userId, email |-> payload.email, role |-> payload.role,
        iat |-> payload.iat, exp |-> payload.exp]
  ELSE NoReqUser

\* #verifyToken: jwtVerify, then the schema; any error gives null
verifyToken(token, key, t) ==
  IF jwtVerify(token, key, t) THEN userPayloadSchema(ClaimsOf(token)) ELSE NoReqUser

NoResponse == [status |-> 0, error |-> "", user |-> NoReqUser, nexts |-> 0]

\* faulty variant: the return after the 403 response is missing
authenticate_FallsThrough(header, config, t, later) ==
  LET accessKey == importJWK(config.accessTokenSecret)
      token == extractToken(header)
      payload == verifyToken(token, accessKey, t)
  IN IF token = NoToken
     THEN [NoResponse EXCEPT !.status = 401, !.error = "Unauthorized"]
     ELSE IF payload = NoReqUser
     THEN [NoResponse EXCEPT !.status = 403, !.error = "Forbidden", !.nexts = 1]
     ELSE IF payload.exp * MsPerSec < later
     THEN [NoResponse EXCEPT !.status = 401, !.error = "Unauthorized"]
     ELSE [NoResponse EXCEPT !.user = payload, !.nexts = 1]

\* authenticate(req, res, next) of a middleware created with config.
\* jwtVerify reads the clock at t; the Date.now() of the expiry test comes
\* after the await of #verifyToken, at `later`
authenticate(header, config, t, later) ==
  LET accessKey == importJWK(config.accessTokenSecret)
      token == extractToken(header)
      payload == verifyToken(token, accessKey, t)
  IN IF token = NoToken
     THEN [NoResponse EXCEPT !.status = 401, !.error = "Unauthorized"]
     ELSE IF payload = NoReqUser
     THEN [NoResponse EXCEPT !.status = 403, !.error = "Forbidden"]
     ELSE IF payload.exp * MsPerSec < later
     THEN [NoResponse EXCEPT !.status = 401, !.error = "Unauthorized"]
     ELSE [NoResponse EXCEPT !.user = payload, !.nexts = 1]

\* faulty variant: any authenticated user passes
authorize_AnyRole(user, allowedRoles) ==
  IF user = NoReqUser
  THEN [NoResponse EXCEPT !.status = 401, !.error = "Unauthorized"]
  ELSE [NoResponse EXCEPT !.user = user, !.nexts = 1]

\* authorize(...allowedRoles)(req, res, next)
authorize(user, allowedRoles) ==
  IF user = NoReqUser
  THEN [NoResponse EXCEPT !.status = 401, !.error = "Unauthorized"]
  ELSE IF user.role \notin allowedRoles
  THEN [NoResponse EXCEPT !.user = user, !.status = 403, !.error = "Forbidden"]
  ELSE [NoResponse EXCEPT !.user = user, !.nexts = 1]

\* ------------------------------------------------------------------- state
VARIABLES
  env,            \* process.env: the two signing secrets
  now,            \* Date.now()
  adapter,        \* the MemoryAdapter the service was constructed with
  calls,          \* the service calls in flight, each at its next await
  nextUid,        \* the next crypto.randomUUID() of createUser
  nextJti,        \* the next crypto.randomUUID() of a signed token
  rotated,        \* <<old, new>> for every completed rotation
  codec,          \* core/crypto.js called directly: tokens signed, last verification
  direct,         \* the last adapter method called directly, with what it returned
  http,           \* the last request given to a middleware, with its response
  swept           \* the refreshes in flight past their validity check whose user
                  \* has had all sessions revoked since

vars == <<env, now, adapter, calls, nextUid, nextJti, rotated, codec, direct, http, swept>>

\* No direct use of the token codec yet
\* `signedAt` and `verifiedAt` are Date.now() at the sign call that returned
\* the token and at the verifyJWT call
NoVerify == [kind |-> "", token |-> NoToken, type |-> "", err |-> "", payload |-> NoPayload,
             signedAt |-> 0, verifiedAt |-> 0]
EmptyCodec == [signed |-> {}, signErr |-> "", last |-> NoVerify]

\* `verified` lists the hashes the call has given to verifyPassword
\* No adapter method called directly yet.  `revoked` is whether the token
\* was in the revoked set when the method was called
\* No request yet.  `nexts` counts the calls of next() by the middleware
\* named in `mw`, `at` is Date.now() when it ran
NoRequest == [mw |-> "", header |-> NoHeader, allowedRoles |-> {}, at |-> 0,
              status |-> 0, error |-> "", user |-> NoReqUser, nexts |-> 0]

NoDirect == [op |-> "", token |-> NoToken, userId |-> 0, expiresAt |-> 0, email |-> "",
             revoked |-> FALSE, valid |-> FALSE, user |-> NoUser, err |-> ""]

IdleCall == [op |-> "none", pc |-> "idle", email |-> "", password |-> "", token |-> NoToken,
             user |-> NoUser, payload |-> NoPayload, hashedPassword |-> NoHash,
             accessToken |-> NoToken, refreshToken |-> NoToken, verified |-> <<>>,
             result |-> NoResult]

Init ==
  /\ env = [ACCESS_TOKEN_SECRET |-> AccessSecret, REFRESH_TOKEN_SECRET |-> RefreshSecret]
  /\ now = 0
  /\ adapter = EmptyAdapter
  /\ calls = [c \in Calls |-> IdleCall]
  /\ nextUid = 1
  /\ nextJti = 1
  /\ rotated = {}
  /\ codec = EmptyCodec
  /\ direct = NoDirect
  /\ http = NoRequest
  /\ swept = {}

\* A call that has finished keeps only its operation, arguments, the
\* verifications it made and its result
Done(call, result) ==
  [IdleCall EXCEPT !.op = call.op, !.pc = "done", !.email = call.email,
                   !.password = call.password, !.token = call.token,
                   !.verified = call.verified, !.result = result]

\* A slot is free before its first call and once its call has finished; a
\* new call takes the lowest free slot
Free(c) == calls[c].pc \in {"idle", "done"}
CanStart(c) == Free(c) /\ \A d \in Calls : d < c => ~Free(d)

\* The jti's the calls in flight may still draw.  A specification lets a
\* login or refresh start only while the two tokens it may sign stay within
\* its bound
Need(c) ==
  IF calls[c].op \notin {"login", "refresh"} \/ Free(c) THEN 0
  ELSE IF calls[c].pc = "saveRefreshToken" THEN 0
  ELSE IF calls[c].pc = "signRefreshToken" THEN 1
  ELSE 2
CanMint(max) == (nextJti - 1) + Need(1) + Need(2) + 2 <= max

UserIds == {adapter.users[e].id : e \in DOMAIN adapter.users}

\* What a client can present as a refresh token
\* The refresh tokens handed out so far: every saved token was returned by
\* the login or refresh that saved it
IssuedRefresh == DOMAIN adapter.refreshTokens
\* The access tokens callers hold from the calls that have just returned
HeldAccess == {calls[c].result.accessToken : c \in {d \in Calls : calls[d].result.status = "ok"
                                                         /\ calls[d].op \in {"login", "refresh"}}}
TokenInputs == IssuedRefresh \cup HeldAccess
                 \cup {GarbageToken, ShortToken, ForgedToken, StaleToken}

\* Call c ends with the error an awaited call has thrown
Throws(c, message) ==
  /\ calls' = [calls EXCEPT ![c] = Done(@, Err(message))]
  /\ UNCHANGED <<env, now, adapter, nextUid, nextJti, rotated, codec, direct, http, swept>>

\* --------------------------------------------------- AuthService.register
RegisterCall(c, email, password) ==
  /\ CanStart(c)
  /\ LET call == [IdleCall EXCEPT !.op = "register", !.email = email, !.password = password]
         issue == registerSchema(email, password)
     IN calls' = [calls EXCEPT ![c] =
          IF issue # "" THEN Done(call, Err(issue))
          ELSE [call EXCEPT !.pc = "findUserByEmail"]]
  /\ UNCHANGED <<env, now, adapter, nextUid, nextJti, rotated, codec, direct, http, swept>>

\* faulty variant: the existing-user check is left out
RegisterFind_Skipped(c) ==
  /\ calls[c].op = "register" /\ calls[c].pc = "findUserByEmail"
  /\ calls' = [calls EXCEPT ![c] = [@ EXCEPT !.pc = "hashPassword"]]
  /\ UNCHANGED <<env, now, adapter, nextUid, nextJti, rotated, codec, direct, http, swept>>

RegisterFind(c) ==
  /\ calls[c].op = "register" /\ calls[c].pc = "findUserByEmail"
  /\ IF "findUserByEmail" \notin adapter.implements
     THEN Throws(c, NotImplemented("findUserByEmail"))
     ELSE
       /\ LET existingUser == findUserByEmail(adapter, calls[c].email)
          IN calls' = [calls EXCEPT ![c] =
               IF existingUser # NoUser THEN Done(@, Err("User already exists"))
               ELSE [@ EXCEPT !.pc = "hashPassword"]]
       /\ UNCHANGED <<env, now, adapter, nextUid, nextJti, rotated, codec, direct, http, swept>>

RegisterHash(c) ==
  /\ calls[c].op = "register" /\ calls[c].pc = "hashPassword"
  /\ calls' = [calls EXCEPT ![c] =
       [@ EXCEPT !.pc = "createUser", !.hashedPassword = hashPassword(calls[c].password, 1)]]
  /\ UNCHANGED <<env, now, adapter, nextUid, nextJti, rotated, codec, direct, http, swept>>

RegisterCreate(c) ==
  /\ calls[c].op = "register" /\ calls[c].pc = "createUser"
  /\ IF "createUser" \notin adapter.implements
     THEN Throws(c, NotImplemented("createUser"))
     ELSE
       /\ LET r == createUser(adapter, calls[c].email, calls[c].hashedPassword, "", nextUid, now)
          IN /\ adapter' = r.adapter
             /\ nextUid' = IF r.err # "" THEN nextUid ELSE nextUid + 1
             /\ calls' = [calls EXCEPT ![c] =
                  IF r.err # "" THEN Done(@, Err(r.err))
                  ELSE Done(@, Ok([accessToken |-> NoToken, refreshToken |-> NoToken,
                                   userId |-> r.user.id]))]
       /\ UNCHANGED <<env, now, nextJti, rotated, codec, direct, http, swept>>

\* ------------------------------------------------------ AuthService.login
LoginCall(c, email, password) ==
  /\ CanStart(c)
  /\ LET call == [IdleCall EXCEPT !.op = "login", !.email = email, !.password = password]
         issue == loginSchema(email, password)
     IN calls' = [calls EXCEPT ![c] =
          IF issue # "" THEN Done(call, Err(issue))
          ELSE [call EXCEPT !.pc = "findUserByEmail"]]
  /\ UNCHANGED <<env, now, adapter, nextUid, nextJti, rotated, codec, direct, http, swept>>

LoginFind(c) ==
  /\ calls[c].op = "login" /\ calls[c].pc = "findUserByEmail"
  /\ IF "findUserByEmail" \notin adapter.implements
     THEN Throws(c, NotImplemented("findUserByEmail"))
     ELSE
       /\ calls' = [calls EXCEPT ![c] =
            [@ EXCEPT !.pc = "verifyPassword", !.user = findUserByEmail(adapter, calls[c].email)]]
       /\ UNCHANGED <<env, now, adapter, nextUid, nextJti, rotated, codec, direct, http, swept>>

\* faulty variant: an unknown email is refused without a verification
LoginVerify_EarlyExit(c) ==
  /\ calls[c].op = "login" /\ calls[c].pc = "verifyPassword"
  /\ LET user == calls[c].user
         passwordValid == verifyPassword(user.hashedPassword, calls[c].password)
         checked == [calls[c] EXCEPT !.verified = Append(@, user.hashedPassword)]
     IN calls' = [calls EXCEPT ![c] =
          IF user = NoUser THEN Done(calls[c], Err("Invalid credentials"))
          ELSE IF ~passwordValid THEN Done(checked, Err("Invalid credentials"))
          ELSE [checked EXCEPT !.pc = "signAccessToken"]]
  /\ UNCHANGED <<env, now, adapter, nextUid, nextJti, rotated, codec, direct, http, swept>>

\* faulty variant: an unknown email gets an error of its own
LoginVerify_Disclosing(c) ==
  /\ calls[c].op = "login" /\ calls[c].pc = "verifyPassword"
  /\ LET user == calls[c].user
         hashToCheck == IF user # NoUser THEN user.hashedPassword ELSE DummyHash
         passwordValid == verifyPassword(hashToCheck, calls[c].password)
         checked == [calls[c] EXCEPT !.verified = Append(@, hashToCheck)]
     IN calls' = [calls EXCEPT ![c] =
          IF user = NoUser THEN Done(checked, Err("User not found"))
          ELSE IF ~passwordValid THEN Done(checked, Err("Invalid credentials"))
          ELSE [checked EXCEPT !.pc = "signAccessToken"]]
  /\ UNCHANGED <<env, now, adapter, nextUid, nextJti, rotated, codec, direct, http, swept>>

LoginVerify(c) ==
  /\ calls[c].op = "login" /\ calls[c].pc = "verifyPassword"
  /\ LET user == calls[c].user
         hashToCheck == IF user # NoUser THEN user.hashedPassword ELSE DummyHash
         passwordValid == verifyPassword(hashToCheck, calls[c].password)
         checked == [calls[c] EXCEPT !.verified = Append(@, hashToCheck)]
     IN calls' = [calls EXCEPT ![c] =
          IF user = NoUser \/ ~passwordValid THEN Done(checked, Err("Invalid credentials"))
          ELSE [checked EXCEPT !.pc = "signAccessToken"]]
  /\ UNCHANGED <<env, now, adapter, nextUid, nextJti, rotated, codec, direct, http, swept>>

LoginSignAccess(c) ==
  /\ calls[c].op = "login" /\ calls[c].pc = "signAccessToken"
  /\ LET user == calls[c].user
         r == signAccessToken([userId |-> user.id, role |-> user.role], env, now, nextJti)
     IN /\ calls' = [calls EXCEPT ![c] =
          IF r.err # "" THEN Done(@, Err(r.err))
          ELSE [@ EXCEPT !.pc = "signRefreshToken", !.accessToken = r.token]]
        /\ nextJti' = IF r.err # "" THEN nextJti ELSE nextJti + 1
  /\ UNCHANGED <<env, now, adapter, nextUid, rotated, codec, direct, http, swept>>

\* faulty variant: when the refresh token cannot be signed the call returns
\* the access token alone
LoginSignRefresh_Partial(c) ==
  /\ calls[c].op = "login" /\ calls[c].pc = "signRefreshToken"
  /\ LET r == signRefreshToken([userId |-> calls[c].user.id, role |-> ""], env, now, nextJti)
     IN /\ calls' = [calls EXCEPT ![c] =
             IF r.err # ""
             THEN Done(@, Ok([accessToken |-> calls[c].accessToken,
                              refreshToken |-> NoToken, userId |-> 0]))
             ELSE [@ EXCEPT !.pc = "saveRefreshToken", !.refreshToken = r.token]]
        /\ nextJti' = IF r.err # "" THEN nextJti ELSE nextJti + 1
  /\ UNCHANGED <<env, now, adapter, nextUid, rotated, codec, direct, http, swept>>

LoginSignRefresh(c) ==
  /\ calls[c].op = "login" /\ calls[c].pc = "signRefreshToken"
  /\ LET r == signRefreshToken([userId |-> calls[c].user.id, role |-> ""], env, now, nextJti)
     IN /\ calls' = [calls EXCEPT ![c] =
          IF r.err # "" THEN Done(@, Err(r.err))
          ELSE [@ EXCEPT !.pc = "saveRefreshToken", !.refreshToken = r.token]]
        /\ nextJti' = IF r.err # "" THEN nextJti ELSE nextJti + 1
  /\ UNCHANGED <<env, now, adapter, nextUid, rotated, codec, direct, http, swept>>

\* faulty variant: the record expires a second before 7 days
LoginSave_ShortExpiry(c) ==
  /\ calls[c].op = "login" /\ calls[c].pc = "saveRefreshToken"
  /\ IF "saveRefreshToken" \notin adapter.implements
     THEN Throws(c, NotImplemented("saveRefreshToken"))
     ELSE
       /\ LET r == saveRefreshToken(adapter, calls[c].user.id, calls[c].refreshToken,
                                    now + RefreshTTLMs - MsPerSec)
          IN /\ adapter' = r.adapter
             /\ calls' = [calls EXCEPT ![c] =
                  IF r.err # "" THEN Done(@, Err(r.err))
                  ELSE Done(@, Ok([accessToken |-> calls[c].accessToken,
                                   refreshToken |-> calls[c].refreshToken, userId |-> 0]))]
       /\ UNCHANGED <<env, now, nextUid, nextJti, rotated, codec, direct, http, swept>>

LoginSave(c) ==
  /\ calls[c].op = "login" /\ calls[c].pc = "saveRefreshToken"
  /\ IF "saveRefreshToken" \notin adapter.implements
     THEN Throws(c, NotImplemented("saveRefreshToken"))
     ELSE
       /\ LET r == saveRefreshToken(adapter, calls[c].user.id, calls[c].refreshToken,
                                    now + RefreshTTLMs)
          IN /\ adapter' = r.adapter
             /\ calls' = [calls EXCEPT ![c] =
                  IF r.err # "" THEN Done(@, Err(r.err))
                  ELSE Done(@, Ok([accessToken |-> calls[c].accessToken,
                                   refreshToken |-> calls[c].refreshToken, userId |-> 0]))]
       /\ UNCHANGED <<env, now, nextUid, nextJti, rotated, codec, direct, http, swept>>


\* ---------------------------------------------------- AuthService.refresh
RefreshCall(c, refreshToken) ==
  /\ CanStart(c)
  /\ LET call == [IdleCall EXCEPT !.op = "refresh", !.token = refreshToken]
         issue == refreshSchema(refreshToken)
     IN calls' = [calls EXCEPT ![c] =
          IF issue # "" THEN Done(call, Err(issue))
          ELSE [call EXCEPT !.pc = "verifyJWT"]]
  /\ UNCHANGED <<env, now, adapter, nextUid, nextJti, rotated, codec, direct, http, swept>>

\* try { payload = await verifyJWT(token, 'refresh') } catch { throw 'Invalid refresh token' }
RefreshVerify(c) ==
  /\ calls[c].op = "refresh" /\ calls[c].pc = "verifyJWT"
  /\ LET r == verifyJWT(calls[c].token, "refresh", env, now)
     IN calls' = [calls EXCEPT ![c] =
          IF r.err # "" THEN Done(@, Err("Invalid refresh token"))
          ELSE [@ EXCEPT !.pc = "isRefreshTokenValid", !.payload = r.payload]]
  /\ UNCHANGED <<env, now, adapter, nextUid, nextJti, rotated, codec, direct, http, swept>>

\* faulty variant: the check waits while another call is consuming a token
RefreshCheck_Locked(c) ==
  /\ calls[c].op = "refresh" /\ calls[c].pc = "isRefreshTokenValid"
  /\ \A d \in Calls \ {c} :
       calls[d].pc \notin {"revokeRefreshToken", "signAccessToken", "signRefreshToken",
                          "saveRefreshToken"}
  /\ LET isValid == isRefreshTokenValid(adapter, calls[c].token, now)
     IN calls' = [calls EXCEPT ![c] =
          [@ EXCEPT !.pc = IF ~isValid THEN "revokeAllUserSessions" ELSE "revokeRefreshToken"]]
  /\ UNCHANGED <<env, now, adapter, nextUid, nextJti, rotated, codec, direct, http, swept>>

RefreshCheck(c) ==
  /\ calls[c].op = "refresh" /\ calls[c].pc = "isRefreshTokenValid"
  /\ IF "isRefreshTokenValid" \notin adapter.implements
     THEN Throws(c, NotImplemented("isRefreshTokenValid"))
     ELSE
       /\ LET isValid == isRefreshTokenValid(adapter, calls[c].token, now)
          IN calls' = [calls EXCEPT ![c] =
               [@ EXCEPT !.pc = IF ~isValid THEN "revokeAllUserSessions" ELSE "revokeRefreshToken"]]
       /\ swept' = swept \ {c}
       /\ UNCHANGED <<env, now, adapter, nextUid, nextJti, rotated, codec, direct, http>>

\* faulty variant: the sessions of every user are revoked
RefreshRevokeAll_AllUsers(c) ==
  /\ calls[c].op = "refresh" /\ calls[c].pc = "revokeAllUserSessions"
  /\ adapter' = [adapter EXCEPT !.revokedTokens = @ \cup DOMAIN adapter.refreshTokens]
  /\ calls' = [calls EXCEPT ![c] = Done(@, Err("Session revoked - please login again"))]
  /\ UNCHANGED <<env, now, nextUid, nextJti, rotated, codec, direct, http, swept>>

\* the breach-detection branch: revoke every session of the user, then throw
RefreshRevokeAll(c) ==
  /\ calls[c].op = "refresh" /\ calls[c].pc = "revokeAllUserSessions"
  /\ IF "revokeAllUserSessions" \notin adapter.implements
     THEN Throws(c, NotImplemented("revokeAllUserSessions"))
     ELSE
       /\ adapter' = revokeAllUserSessions(adapter, calls[c].payload.userId)
       /\ calls' = [calls EXCEPT ![c] = Done(@, Err("Session revoked - please login again"))]
       /\ swept' = swept \cup {d \in Calls \ {c} :
                                 /\ calls[d].op = "refresh"
                                 /\ calls[d].pc \in {"revokeRefreshToken", "signAccessToken",
                                                     "signRefreshToken", "saveRefreshToken"}
                                 /\ calls[d].payload.userId = calls[c].payload.userId}
       /\ UNCHANGED <<env, now, nextUid, nextJti, rotated, codec, direct, http>>

RefreshRevoke(c) ==
  /\ calls[c].op = "refresh" /\ calls[c].pc = "revokeRefreshToken"
  /\ IF "revokeRefreshToken" \notin adapter.implements
     THEN Throws(c, NotImplemented("revokeRefreshToken"))
     ELSE
       /\ adapter' = revokeRefreshToken(adapter, calls[c].token)
       /\ calls' = [calls EXCEPT ![c] = [@ EXCEPT !.pc = "signAccessToken"]]
       /\ UNCHANGED <<env, now, nextUid, nextJti, rotated, codec, direct, http, swept>>

\* role: payload.role || 'user'
RefreshAccessPayload(payload) ==
  [userId |-> payload.userId, role |-> IF payload.role # "" THEN payload.role ELSE "user"]

\* faulty variant: a failed signature takes the revocation of the old token back
RefreshSignAccess_RollsBack(c) ==
  /\ calls[c].op = "refresh" /\ calls[c].pc = "signAccessToken"
  /\ LET r == signAccessToken(RefreshAccessPayload(calls[c].payload), env, now, nextJti)
     IN /\ calls' = [calls EXCEPT ![c] =
          IF r.err # "" THEN Done(@, Err(r.err))
          ELSE [@ EXCEPT !.pc = "signRefreshToken", !.accessToken = r.token]]
        /\ nextJti' = IF r.err # "" THEN nextJti ELSE nextJti + 1
        /\ adapter' = IF r.err # ""
                      THEN [adapter EXCEPT !.revokedTokens = @ \ {calls[c].token}]
                      ELSE adapter
  /\ UNCHANGED <<env, now, nextUid, rotated, codec, direct, http, swept>>

RefreshSignAccess(c) ==
  /\ calls[c].op = "refresh" /\ calls[c].pc = "signAccessToken"
  /\ LET r == signAccessToken(RefreshAccessPayload(calls[c].payload), env, now, nextJti)
     IN /\ calls' = [calls EXCEPT ![c] =
          IF r.err # "" THEN Done(@, Err(r.err))
          ELSE [@ EXCEPT !.pc = "signRefreshToken", !.accessToken = r.token]]
        /\ nextJti' = IF r.err # "" THEN nextJti ELSE nextJti + 1
  /\ UNCHANGED <<env, now, adapter, nextUid, rotated, codec, direct, http, swept>>

RefreshSignRefresh(c) ==
  /\ calls[c].op = "refresh" /\ calls[c].pc = "signRefreshToken"
  /\ LET r == signRefreshToken([userId |-> calls[c].payload.userId, role |-> ""],
                               env, now, nextJti)
     IN /\ calls' = [calls EXCEPT ![c] =
          IF r.err # "" THEN Done(@, Err(r.err))
          ELSE [@ EXCEPT !.pc = "saveRefreshToken", !.refreshToken = r.token]]
        /\ nextJti' = IF r.err # "" THEN nextJti ELSE nextJti + 1
  /\ UNCHANGED <<env, now, adapter, nextUid, rotated, codec, direct, http, swept>>

RefreshSave(c) ==
  /\ calls[c].op = "refresh" /\ calls[c].pc = "saveRefreshToken"
  /\ IF "saveRefreshToken" \notin adapter.implements
     THEN Throws(c, NotImplemented("saveRefreshToken"))
     ELSE
       /\ LET r == saveRefreshToken(adapter, calls[c].payload.userId, calls[c].refreshToken,
                                    now + RefreshTTLMs)
          IN /\ adapter' = r.adapter
             /\ calls' = [calls EXCEPT ![c] =
                  IF r.err # "" THEN Done(@, Err(r.err))
                  ELSE Done(@, Ok([accessToken |-> calls[c].accessToken,
                                   refreshToken |-> calls[c].refreshToken, userId |-> 0]))]
             /\ rotated' = IF r.err # "" THEN rotated
                           ELSE rotated \cup {<<calls[c].token, calls[c].refreshToken>>}
       /\ swept' = swept \ {c}
       /\ UNCHANGED <<env, now, nextUid, nextJti, codec, direct, http>>

\* ------------------------------------- AuthService.revokeRefreshToken
\* The class has no member of this name (its methods are register, login
\* and refresh), so the call expression throws a TypeError before anything
\* is done
NotAFunction == "authService.revokeRefreshToken is not a function"

ServiceRevokeCall(c, refreshToken) ==
  /\ CanStart(c)
  /\ calls' = [calls EXCEPT ![c] =
       Done([IdleCall EXCEPT !.op = "revokeRefreshToken", !.token = refreshToken],
            Err(NotAFunction))]
  /\ UNCHANGED <<env, now, adapter, nextUid, nextJti, rotated, codec, direct, http, swept>>

\* ------------------------------------------- the service's environment
Tick ==
  /\ now < MaxClock
  /\ now' = now + 1
  /\ UNCHANGED <<env, adapter, calls, nextUid, nextJti, rotated, codec, direct, http, swept>>

\* adapter.createUser called directly with a role, as the test setup does
CreateUserDirect(email, role) ==
  /\ email \notin DOMAIN adapter.users
  /\ adapter' = createUser(adapter, email, hashPassword("password123", 1), role,
                           nextUid, now).adapter
  /\ nextUid' = nextUid + 1
  /\ UNCHANGED <<env, now, calls, nextJti, rotated, codec, direct, http, swept>>

\* logout: adapter.revokeRefreshToken called directly
Logout(token) ==
  /\ token \notin adapter.revokedTokens
  /\ adapter' = revokeRefreshToken(adapter, token)
  /\ UNCHANGED <<env, now, calls, nextUid, nextJti, rotated, codec, direct, http, swept>>

\* ---------------------------------------------- the middleware of a route
\* A token of another issuer that signs with the key the middleware
\* imports and puts the user's email into the payload
ForeignToken(e, role) ==
  [form |-> "jwt", sig |-> importJWK(e.ACCESS_TOKEN_SECRET), userId |-> 1,
   email |-> "a@example.com", role |-> role, iat |-> 0, exp |-> AccessTTLSec + 1, jti |-> 0]

\* The middleware is created with the two secrets the service signs with
MiddlewareConfig == [accessTokenSecret |-> env.ACCESS_TOKEN_SECRET,
                     refreshTokenSecret |-> env.REFRESH_TOKEN_SECRET]

Headers ==
  {NoHeader, Basic(GarbageToken)}
    \cup {Bearer(t) : t \in HeldAccess \cup {ForeignToken(env, "admin"),
                                            ForeignToken(env, "user"), GarbageToken}}

\* The time the awaits of one authenticate call take: none that the clock
\* shows, or a second
Elapses == {0, MsPerSec}

\* a request reaches authenticate
Authenticate(header, elapsed) ==
  /\ now + elapsed <= MaxClock
  /\ LET res == authenticate(header, MiddlewareConfig, now, now + elapsed)
     IN http' = [mw |-> "authenticate", header |-> header, allowedRoles |-> {}, at |-> now,
                 status |-> res.status, error |-> res.error, user |-> res.user,
                 nexts |-> res.nexts]
  /\ now' = now + elapsed
  /\ UNCHANGED <<env, adapter, calls, nextUid, nextJti, rotated, codec, direct, swept>>

AllowedRoles == {{}, {"admin"}, {"user", "admin"}}

\* the request that authenticate passed on reaches authorize(...allowedRoles)
AuthorizeNext(allowedRoles) ==
  /\ http.mw = "authenticate" /\ http.nexts = 1
  /\ LET res == authorize(http.user, allowedRoles)
     IN http' = [http EXCEPT !.mw = "authorize", !.allowedRoles = allowedRoles, !.at = now,
                             !.status = res.status, !.error = res.error, !.nexts = res.nexts]
  /\ UNCHANGED <<env, now, adapter, calls, nextUid, nextJti, rotated, codec, direct, swept>>

\* a request reaches authorize(...allowedRoles) on a route without
\* authenticate: req.user is not set
AuthorizeAlone(allowedRoles) ==
  /\ LET res == authorize(NoReqUser, allowedRoles)
     IN http' = [mw |-> "authorize", header |-> NoHeader, allowedRoles |-> allowedRoles,
                 at |-> now, status |-> res.status, error |-> res.error, user |-> res.user,
                 nexts |-> res.nexts]
  /\ UNCHANGED <<env, now, adapter, calls, nextUid, nextJti, rotated, codec, direct, swept>>

\* ------------------------------------------- core/crypto.js called directly
Payloads == {[userId |-> 1, role |-> "admin"], [userId |-> 2, role |-> ""]}

\* crypto.randomUUID() is drawn after the secret check has passed
SignAccess(payload) ==
  /\ nextJti <= MaxJtiCodec
  /\ LET r == signAccessToken(payload, env, now, nextJti)
     IN /\ codec' = IF r.err # "" THEN [codec EXCEPT !.signErr = r.err]
                    ELSE [codec EXCEPT !.signed = @ \cup {[kind |-> "access", token |-> r.token, at |-> now]}]
        /\ nextJti' = IF r.err # "" THEN nextJti ELSE nextJti + 1
  /\ UNCHANGED <<env, now, adapter, calls, nextUid, rotated, direct, http, swept>>

SignRefresh(payload) ==
  /\ nextJti <= MaxJtiCodec
  /\ LET r == signRefreshToken(payload, env, now, nextJti)
     IN /\ codec' = IF r.err # "" THEN [codec EXCEPT !.signErr = r.err]
                    ELSE [codec EXCEPT !.signed = @ \cup {[kind |-> "refresh", token |-> r.token, at |-> now]}]
        /\ nextJti' = IF r.err # "" THEN nextJti ELSE nextJti + 1
  /\ UNCHANGED <<env, now, adapter, calls, nextUid, rotated, direct, http, swept>>

\* What is given to verifyJWT: the tokens the two sign functions returned
\* and a string that is no JWT
VerifyInputs == codec.signed \cup {[kind |-> "none", token |-> GarbageToken, at |-> 0]}

Verify(s, type) ==
  /\ LET r == verifyJWT(s.token, type, env, now)
     IN codec' = [codec EXCEPT !.last = [kind |-> s.kind, token |-> s.token, type |-> type,
                                         err |-> r.err, payload |-> r.payload,
                                         signedAt |-> s.at, verifiedAt |-> now]]
  /\ UNCHANGED <<env, now, adapter, calls, nextUid, nextJti, rotated, direct, http, swept>>

\* ------------------------------------------ MemoryAdapter called directly
\* Token strings given to the adapter: a JWT, an opaque string of 13
\* characters, and one too short to save
StoreTokens == {StaleToken, GarbageToken, ShortToken}
StoreUserIds == {1, 2}
StoreExpiries == {1, 3}

\* Calls of saveRefreshToken with one argument of the wrong type
IllTypedSaves == {<<NumberId, StaleToken, 3>>, <<1, NumberToken, 3>>, <<1, StaleToken, NotADate>>}

SaveDirect(userId, token, expiresAt) ==
  /\ LET r == saveRefreshToken(adapter, userId, token, expiresAt)
     IN /\ adapter' = r.adapter
        /\ direct' = [NoDirect EXCEPT !.op = "saveRefreshToken", !.token = token,
                                      !.userId = userId, !.expiresAt = expiresAt,
                                      !.revoked = token \in adapter.revokedTokens,
                                      !.err = r.err]
  /\ UNCHANGED <<env, now, calls, nextUid, nextJti, rotated, codec, http, swept>>

IsValidDirect(token) ==
  /\ direct' = [NoDirect EXCEPT !.op = "isRefreshTokenValid", !.token = token,
                                !.revoked = token \in adapter.revokedTokens,
                                !.valid = isRefreshTokenValid(adapter, token, now)]
  /\ UNCHANGED <<env, now, adapter, calls, nextUid, nextJti, rotated, codec, http, swept>>

RevokeDirect(token) ==
  /\ adapter' = revokeRefreshToken(adapter, token)
  /\ direct' = [NoDirect EXCEPT !.op = "revokeRefreshToken", !.token = token,
                                !.revoked = token \in adapter.revokedTokens]
  /\ UNCHANGED <<env, now, calls, nextUid, nextJti, rotated, codec, http, swept>>

RevokeAllDirect(userId) ==
  /\ adapter' = revokeAllUserSessions(adapter, userId)
  /\ direct' = [NoDirect EXCEPT !.op = "revokeAllUserSessions", !.userId = userId]
  /\ UNCHANGED <<env, now, calls, nextUid, nextJti, rotated, codec, http, swept>>

FindDirect(email) ==
  /\ direct' = [NoDirect EXCEPT !.op = "findUserByEmail", !.email = email,
                                !.user = findUserByEmail(adapter, email)]
  /\ UNCHANGED <<env, now, adapter, calls, nextUid, nextJti, rotated, codec, http, swept>>

\* The users of a behaviour: an administrator and an ordinary user
DirectUsers == {<<"a@example.com", "admin">>, <<"b@example.com", "user">>}

LoginSteps(c) ==
  \/ LoginFind(c)
  \/ LoginVerify(c)
  \/ LoginSignAccess(c)
  \/ LoginSignRefresh(c)
  \/ LoginSave(c)

RefreshSteps(c) ==
  \/ RefreshVerify(c)
  \/ RefreshCheck(c)
  \/ RefreshRevokeAll(c)
  \/ RefreshRevoke(c)
  \/ RefreshSignAccess(c)
  \/ RefreshSignRefresh(c)
  \/ RefreshSave(c)

\* Concurrent logins and refreshes of two users, with logout; the calls are
\* faster than the clock
Next ==
  \/ \E x \in DirectUsers : CreateUserDirect(x[1], x[2])
  \/ \E c \in Calls, email \in GoodEmails :
       CanMint(MaxJti) /\ LoginCall(c, email, "password123")
  \/ \E c \in Calls : LoginSteps(c)
  \/ \E c \in Calls, t \in TokenInputs : CanMint(MaxJti) /\ RefreshCall(c, t)
  \/ \E c \in Calls : RefreshSteps(c)
  \/ \E t \in IssuedRefresh : Logout(t)

Spec == Init /\ [][Next]_vars

\* One call at a time for one user, while the clock runs past every expiry
NextTime ==
  \/ CreateUserDirect("a@example.com", "admin")
  \/ CanMint(MaxJtiTime) /\ LoginCall(1, "a@example.com", "password123")
  \/ LoginSteps(1)
  \/ \E t \in IssuedRefresh \cup {StaleToken} : CanMint(MaxJtiTime) /\ RefreshCall(1, t)
  \/ RefreshSteps(1)
  \/ \E t \in IssuedRefresh : Logout(t)
  \/ Tick

SpecTime == Init /\ [][NextTime]_vars

RegisterSteps(c) ==
  \/ RegisterFind(c)
  \/ RegisterHash(c)
  \/ RegisterCreate(c)

\* Concurrent registrations and logins with every input shape
NextLogin ==
  \/ \E c \in Calls, email \in Emails, password \in RegisterPasswords :
       RegisterCall(c, email, password)
  \/ \E c \in Calls : RegisterSteps(c)
  \/ \E c \in Calls, email \in Emails, password \in Passwords :
       CanMint(MaxJti) /\ LoginCall(c, email, password)
  \/ \E c \in Calls : LoginSteps(c)
  \/ \E c \in Calls : RefreshCall(c, ShortToken)

SpecLogin == Init /\ [][NextLogin]_vars

\* The token codec alone, under every configuration of the two secrets
InitCodec ==
  /\ env \in Envs
  /\ now = 0
  /\ adapter = EmptyAdapter
  /\ calls = [c \in Calls |-> IdleCall]
  /\ nextUid = 1
  /\ nextJti = 1
  /\ rotated = {}
  /\ codec = EmptyCodec
  /\ direct = NoDirect
  /\ http = NoRequest
  /\ swept = {}

NextCodec ==
  \/ \E payload \in Payloads : SignAccess(payload)
  \/ \E payload \in Payloads : SignRefresh(payload)
  \/ \E s \in VerifyInputs, type \in {"access", "refresh"} : Verify(s, type)
  \/ Tick

SpecCodec == InitCodec /\ [][NextCodec]_vars

\* One call at a time for one user, under every configuration of the two
\* secrets
NextConfig ==
  \/ CreateUserDirect("a@example.com", "admin")
  \/ CanMint(MaxJti) /\ LoginCall(1, "a@example.com", "password123")
  \/ LoginSteps(1)
  \/ \E t \in IssuedRefresh \cup {StaleToken, GarbageToken} :
       CanMint(MaxJti) /\ RefreshCall(1, t)
  \/ RefreshSteps(1)

SpecConfig == InitCodec /\ [][NextConfig]_vars

\* The MemoryAdapter alone, its methods called in any order while the
\* clock runs
NextStore ==
  \/ CreateUserDirect("b@example.com", "user")
  \/ \E email \in GoodEmails : FindDirect(email)
  \/ \E userId \in StoreUserIds, token \in StoreTokens, expiresAt \in StoreExpiries :
       SaveDirect(userId, token, expiresAt)
  \/ \E x \in IllTypedSaves : SaveDirect(x[1], x[2], x[3])
  \/ \E token \in StoreTokens : IsValidDirect(token)
  \/ \E token \in StoreTokens \ {ShortToken} : RevokeDirect(token)
  \/ \E userId \in StoreUserIds : RevokeAllDirect(userId)
  \/ Tick

SpecStore == Init /\ [][NextStore]_vars

\* The service used as the README documents it, one call at a time: over a
\* MemoryAdapter or over an adapter with the README's required methods, and
\* with the documented logout call
InitApi ==
  /\ env = [ACCESS_TOKEN_SECRET |-> AccessSecret, REFRESH_TOKEN_SECRET |-> RefreshSecret]
  /\ now = 0
  /\ adapter \in {EmptyAdapter, ReadmeAdapter}
  /\ calls = [c \in Calls |-> IdleCall]
  /\ nextUid = 1
  /\ nextJti = 1
  /\ rotated = {}
  /\ codec = EmptyCodec
  /\ direct = NoDirect
  /\ http = NoRequest
  /\ swept = {}

NextApi ==
  \/ \E email \in GoodEmails : RegisterCall(1, email, "password123")
  \/ RegisterSteps(1)
  \/ \E email \in GoodEmails : CanMint(MaxJti) /\ LoginCall(1, email, "password123")
  \/ LoginSteps(1)
  \/ \E t \in IssuedRefresh \cup {StaleToken} : CanMint(MaxJti) /\ RefreshCall(1, t)
  \/ RefreshSteps(1)
  \/ \E t \in IssuedRefresh : ServiceRevokeCall(1, t)

SpecApi == InitApi /\ [][NextApi]_vars

\* The secrets are read from process.env at every call of a sign function
\* or of verifyJWT, so a change of process.env takes effect between two
\* awaits of a call in flight. The values the tests give the two variables:
\* deleted, 'short', and restored
OutageEnvs == {[ACCESS_TOKEN_SECRET |-> AccessSecret, REFRESH_TOKEN_SECRET |-> RefreshSecret],
               [ACCESS_TOKEN_SECRET |-> "", REFRESH_TOKEN_SECRET |-> RefreshSecret],
               [ACCESS_TOKEN_SECRET |-> "short", REFRESH_TOKEN_SECRET |-> RefreshSecret],
               [ACCESS_TOKEN_SECRET |-> AccessSecret, REFRESH_TOKEN_SECRET |-> ""],
               [ACCESS_TOKEN_SECRET |-> AccessSecret, REFRESH_TOKEN_SECRET |-> "short"]}

SetSecrets(e) ==
  /\ e # env
  /\ env' = e
  /\ UNCHANGED <<now, adapter, calls, nextUid, nextJti, rotated, codec, direct, http, swept>>

\* Logins and refreshes of one user, two calls in flight, while the secrets
\* in process.env are taken away and put back
NextOutage ==
  \/ CreateUserDirect("a@example.com", "admin")
  \/ \E c \in Calls : CanMint(MaxJtiOutage) /\ LoginCall(c, "a@example.com", "password123")
  \/ \E c \in Calls : LoginSteps(c)
  \/ \E c \in Calls, t \in IssuedRefresh : CanMint(MaxJtiOutage) /\ RefreshCall(c, t)
  \/ \E c \in Calls : RefreshSteps(c)
  \/ \E e \in OutageEnvs : SetSecrets(e)

SpecOutage == Init /\ [][NextOutage]_vars

\* The expiry of what is signed and of what is saved: the sign functions
\* and verifyJWT called directly, and logins and refreshes of one user, one
\* call at a time, while the clock runs
ExpiryPayload == [userId |-> 1, role |-> "admin"]

NextExpiry ==
  \/ CreateUserDirect("a@example.com", "admin")
  \/ CanMint(MaxJtiExpiry) /\ LoginCall(1, "a@example.com", "password123")
  \/ LoginSteps(1)
  \/ \E t \in IssuedRefresh : CanMint(MaxJtiExpiry) /\ RefreshCall(1, t)
  \/ RefreshSteps(1)
  \/ SignAccess(ExpiryPayload)
  \/ SignRefresh(ExpiryPayload)
  \/ \E s \in codec.signed : Verify(s, s.kind)
  \/ Tick

SpecExpiry == Init /\ [][NextExpiry]_vars

\* Logins of one user, one call at a time, and requests through the
\* middleware with the tokens they returned, while the clock runs
NextMiddleware ==
  \/ CreateUserDirect("a@example.com", "admin")
  \/ CanMint(MaxJtiMiddleware) /\ LoginCall(1, "a@example.com", "password123")
  \/ LoginSteps(1)
  \/ \E header \in Headers, elapsed \in Elapses : Authenticate(header, elapsed)
  \/ \E allowedRoles \in AllowedRoles : AuthorizeNext(allowedRoles)
  \/ \E allowedRoles \in AllowedRoles : AuthorizeAlone(allowedRoles)
  \/ Tick

SpecMiddleware == Init /\ [][NextMiddleware]_vars

\* The continuation of call c after its pending await
Steps(c) == RegisterSteps(c) \/ LoginSteps(c) \/ RefreshSteps(c)

\* Registrations, logins and refreshes of one user, two calls in flight.
\* The event loop resumes every call whose awaited promise has settled, so
\* each call's steps are weakly fair
NextLive ==
  \/ CreateUserDirect("a@example.com", "admin")
  \/ \E c \in Calls : RegisterCall(c, "b@example.com", "password123")
  \/ \E c \in Calls : CanMint(MaxJti) /\ LoginCall(c, "a@example.com", "password123")
  \/ \E c \in Calls, t \in IssuedRefresh : CanMint(MaxJti) /\ RefreshCall(c, t)
  \/ \E c \in Calls : Steps(c)

SpecLive == Init /\ [][NextLive]_vars /\ \A c \in Calls : WF_vars(Steps(c))

\* Sessions of two users who register through the service: registrations,
\* logins, refreshes and logouts, two calls in flight
NextSessions ==
  \/ \E c \in Calls, email \in GoodEmails : RegisterCall(c, email, "password123")
  \/ \E c \in Calls : RegisterSteps(c)
  \/ \E c \in Calls, email \in GoodEmails :
       CanMint(MaxJti) /\ LoginCall(c, email, "password123")
  \/ \E c \in Calls : LoginSteps(c)
  \/ \E c \in Calls, t \in IssuedRefresh \cup {StaleToken} :
       CanMint(MaxJti) /\ RefreshCall(c, t)
  \/ \E c \in Calls : RefreshSteps(c)
  \/ \E t \in IssuedRefresh : Logout(t)

SpecSessions == Init /\ [][NextSessions]_vars

\* =================================================================== claims
SessionRevoked == "Session revoked - please login again"
InvalidRefreshToken == "Invalid refresh token"

RefreshDone(c) == calls[c].op = "refresh" /\ calls[c].pc = "done"
Succeeded(c) == calls[c].pc = "done" /\ calls[c].result.status = "ok"
\* the steps of a refresh after its validity check has found the token live
Consuming == {"revokeRefreshToken", "signAccessToken", "signRefreshToken", "saveRefreshToken"}

\* C1: of two refresh calls in flight together for the same token, at most
\* one returns a new pair, and when one does the other fails with the
\* session-revoked error.
C1_OneWinner ==
  \A c, d \in Calls :
    (c # d /\ RefreshDone(c) /\ RefreshDone(d) /\ calls[c].token = calls[d].token
       /\ Succeeded(c))
    => calls[d].result = Err(SessionRevoked)

\* C3: a refresh whose validity check found the token live ends in success,
\* and in the state it returns in the old token is not valid, the new one
\* is valid, and the two differ.
C3_Rotation ==
  [][\A c \in Calls :
       (calls[c].op = "refresh" /\ calls[c].pc \in Consuming /\ calls'[c].pc = "done")
       => /\ calls'[c].result.status = "ok"
          /\ ~isRefreshTokenValid(adapter', calls[c].token, now')
          /\ isRefreshTokenValid(adapter', calls'[c].result.refreshToken, now')
          /\ calls'[c].result.refreshToken # calls[c].token]_vars

C3_Witness ==
  \E c \in Calls :
    /\ RefreshDone(c) /\ Succeeded(c)
    /\ ~isRefreshTokenValid(adapter, calls[c].token, now)
    /\ isRefreshTokenValid(adapter, calls[c].result.refreshToken, now)

\* C4: the access token a successful refresh returns carries the role that
\* is stored on the record of the user it is issued for.
C4_RoleKept ==
  \A c \in Calls :
    (RefreshDone(c) /\ Succeeded(c))
    => \A e \in DOMAIN adapter.users :
         adapter.users[e].id = calls[c].result.accessToken.userId
         => calls[c].result.accessToken.role = adapter.users[e].role

\* C5: a refresh whose token verified but is not valid in the store goes to
\* revokeAllUserSessions, the session-revoked error is raised by that step
\* and by no other, and in the state it is raised in every token record of
\* the payload's user is revoked.
C5_BreachDetection ==
  [][\A c \in Calls :
       /\ (calls[c].op = "refresh" /\ calls[c].pc = "isRefreshTokenValid"
             /\ calls'[c].pc # calls[c].pc
             /\ ~isRefreshTokenValid(adapter, calls[c].token, now))
          => calls'[c].pc = "revokeAllUserSessions"
       /\ (calls[c].op = "refresh" /\ calls[c].pc = "revokeAllUserSessions"
             /\ calls'[c].pc # calls[c].pc)
          => /\ calls'[c].result = Err(SessionRevoked)
             /\ \A k \in DOMAIN adapter'.refreshTokens :
                  adapter'.refreshTokens[k].userId = calls[c].payload.userId
                  => k \in adapter'.revokedTokens
       /\ (calls[c].pc # "done" /\ calls'[c].pc = "done"
             /\ calls'[c].result.error = SessionRevoked)
          => calls[c].op = "refresh" /\ calls[c].pc = "revokeAllUserSessions"]_vars

\* a replay that revoked a second, otherwise untouched token of the user
C5_Witness ==
  \E c \in Calls :
    /\ RefreshDone(c) /\ calls[c].result = Err(SessionRevoked)
    /\ \E k \in DOMAIN adapter.refreshTokens :
         /\ k # calls[c].token
         /\ adapter.refreshTokens[k].userId = calls[c].token.userId
         /\ k \in adapter.revokedTokens
         /\ \A p \in rotated : p[1] # k

\* C7: a refresh token of length >= 10 that is malformed or not signed with
\* the refresh secret ends the call at verifyJWT with 'Invalid refresh
\* token', and neither step of the call changes the store.
FailsSignature(t) == t.form # "jwt" \/ t.sig # env.REFRESH_TOKEN_SECRET

C7_InvalidTokenNoEffect ==
  [][\A c \in Calls :
       /\ (calls'[c].op = "refresh" /\ calls'[c].pc = "verifyJWT"
             /\ calls[c].pc # "verifyJWT")
          => adapter' = adapter
       /\ (calls[c].op = "refresh" /\ calls[c].pc = "verifyJWT"
             /\ calls'[c].pc # "verifyJWT"
             /\ TokenLen(calls[c].token) >= MinTokenLen
             /\ FailsSignature(calls[c].token))
          => calls'[c].result = Err(InvalidRefreshToken) /\ adapter' = adapter]_vars

\* an access token of a login was presented as a refresh token and refused
C7_Witness ==
  \E c \in Calls :
    /\ RefreshDone(c) /\ calls[c].result = Err(InvalidRefreshToken)
    /\ calls[c].token.form = "jwt" /\ calls[c].token.sig = env.ACCESS_TOKEN_SECRET
    /\ DOMAIN adapter.refreshTokens # {}


\* The rotation chain of a token: every token linked to it by rotations
ChainStep(S) ==
  S \cup {p[2] : p \in {q \in rotated : q[1] \in S}}
    \cup {p[1] : p \in {q \in rotated : q[2] \in S}}
RECURSIVE ChainClosure(_)
ChainClosure(S) == IF ChainStep(S) = S THEN S ELSE ChainClosure(ChainStep(S))
Chain(t) == ChainClosure({t})

\* a finished refresh that presented a token an earlier refresh had rotated
Replayed(c) ==
  /\ RefreshDone(c) /\ calls[c].result.status = "error"
  /\ \E p \in rotated : p[1] = calls[c].token

ChainDead(t) == \A k \in Chain(t) : ~isRefreshTokenValid(adapter, k, now)

StoreExpired(t) ==
  /\ t \in DOMAIN adapter.refreshTokens
  /\ t \notin adapter.revokedTokens
  /\ adapter.refreshTokens[t].expiresAt < now

ValidConfiguration ==
  /\ EncodedLength(env.ACCESS_TOKEN_SECRET) >= MinSecretLen
  /\ EncodedLength(env.REFRESH_TOKEN_SECRET) >= MinSecretLen
  /\ env.ACCESS_TOKEN_SECRET # env.REFRESH_TOKEN_SECRET

OtherKind(kind) == IF kind = "access" THEN "refresh" ELSE "access"

OnSuccessPath(c) ==
  /\ calls[c].op = "login" /\ ~Free(c)
  /\ IF calls[c].pc = "findUserByEmail"
     THEN /\ calls[c].email \in DOMAIN adapter.users
          /\ adapter.users[calls[c].email].hashedPassword.plain = calls[c].password
     ELSE /\ calls[c].user # NoUser
          /\ calls[c].user.hashedPassword.plain = calls[c].password

\* C9: a login for a registered user with the correct password fails at no
\* step, and the step it returns in returns an access token that verifies
\* for the user and a refresh token that is valid in the store in that
\* state, its record owned by the user's id.
C9_LoginIssuesPair ==
  [][\A c \in Calls :
       (OnSuccessPath(c) /\ calls'[c] # calls[c])
       => IF calls'[c].pc = "done"
          THEN /\ calls'[c].result.status = "ok"
               /\ calls'[c].result.accessToken # NoToken
               /\ calls'[c].result.refreshToken # NoToken
               /\ verifyJWT(calls'[c].result.accessToken, "access", env', now').payload.userId
                    = calls[c].user.id
               /\ isRefreshTokenValid(adapter', calls'[c].result.refreshToken, now')
               /\ adapter'.refreshTokens[calls'[c].result.refreshToken].userId
                    = adapter'.users[calls[c].email].id
          ELSE OnSuccessPath(c)']_vars

\* a login returned a pair to a user who registered through the service
C9_Witness ==
  \E c \in Calls :
    /\ calls[c].op = "login" /\ Succeeded(c)
    /\ calls[c].email \in DOMAIN adapter.users
    /\ isRefreshTokenValid(adapter, calls[c].result.refreshToken, now)
    /\ adapter.refreshTokens[calls[c].result.refreshToken].userId
         = adapter.users[calls[c].email].id

InvalidCredentials == "Invalid credentials"

\* C10: a login with a well-formed email and a non-empty password whose
\* user is absent, or present with another password, ends at the password
\* check with the one result 'Invalid credentials', the same record in both
\* cases, and no earlier step of a login ends the call.
C10_NoEnumeration ==
  [][\A c \in Calls :
       /\ (calls[c].op = "login" /\ calls[c].pc = "findUserByEmail"
             /\ calls'[c] # calls[c])
          => calls'[c].pc = "verifyPassword"
       /\ (calls[c].op = "login" /\ calls[c].pc = "verifyPassword"
             /\ calls'[c] # calls[c]
             /\ (\/ calls[c].user = NoUser
                 \/ calls[c].user.hashedPassword.plain # calls[c].password))
          => /\ calls'[c].pc = "done"
             /\ calls'[c].result = Err(InvalidCredentials)
             /\ adapter' = adapter]_vars

\* one login for an unknown email and one for a registered email with a
\* wrong password have returned the same result
C10_Witness ==
  \E c, d \in Calls :
    /\ calls[c].op = "login" /\ calls[c].pc = "done"
    /\ calls[d].op = "login" /\ calls[d].pc = "done"
    /\ calls[c].email \notin DOMAIN adapter.users
    /\ calls[d].email \in DOMAIN adapter.users
    /\ adapter.users[calls[d].email].hashedPassword.plain # calls[d].password
    /\ calls[c].result = Err(InvalidCredentials)
    /\ calls[d].result = calls[c].result

\* the steps of a login up to its password check
BeforeVerify == {"findUserByEmail", "verifyPassword"}

\* C11: a login that passed validation takes the user lookup, then one
\* verifyPassword, against the stored hash of the user the lookup returned
\* or against the decoy hash when it returned none, and only then fails or
\* goes on: no call is decided with no verification or with two.
C11_OneVerification ==
  [][\A c \in Calls :
       /\ (calls[c].op = "login" /\ calls[c].pc \in BeforeVerify)
          => calls[c].verified = <<>>
       /\ (calls[c].op = "login" /\ calls[c].pc = "findUserByEmail"
             /\ calls'[c] # calls[c])
          => /\ calls'[c].pc = "verifyPassword"
             /\ calls'[c].user = findUserByEmail(adapter, calls[c].email)
       /\ (calls[c].op = "login" /\ calls[c].pc = "verifyPassword"
             /\ calls'[c] # calls[c])
          => calls'[c].verified =
               << IF calls[c].user # NoUser THEN calls[c].user.hashedPassword
                  ELSE DummyHash >>
       /\ (calls[c].op = "login" /\ calls[c].pc \notin BeforeVerify /\ ~Free(c))
          => Len(calls[c].verified) = 1 /\ calls'[c].verified = calls[c].verified
       /\ (calls'[c].op = "login" /\ calls'[c].pc = "done"
             /\ loginSchema(calls'[c].email, calls'[c].password) = "")
          => Len(calls'[c].verified) = 1]_vars

\* both failure paths have run: one verification against the decoy hash,
\* one against a stored hash, the same error
C11_Witness ==
  \E c, d \in Calls :
    /\ calls[c].op = "login" /\ calls[c].result = Err(InvalidCredentials)
    /\ calls[d].op = "login" /\ calls[d].result = Err(InvalidCredentials)
    /\ calls[c].verified = <<DummyHash>>
    /\ Len(calls[d].verified) = 1 /\ calls[d].verified[1].salt # DummyHash.salt

UserAlreadyExists == "User already exists"
RegisterDone(c) == calls[c].op = "register" /\ calls[c].pc = "done"

\* C12: a register whose email has a user when the call looks it up ends
\* there with 'User already exists', and no step of any call changes or
\* removes a user record that exists.
C12_DuplicateRegister ==
  [][/\ \A c \in Calls :
          (calls[c].op = "register" /\ calls[c].pc = "findUserByEmail"
             /\ calls[c].email \in DOMAIN adapter.users /\ calls'[c] # calls[c])
          => calls'[c].pc = "done" /\ calls'[c].result = Err(UserAlreadyExists)
     /\ \A e \in DOMAIN adapter.users :
          e \in DOMAIN adapter'.users /\ adapter'.users[e] = adapter.users[e]]_vars

\* a second register with another password was refused and the record
\* still holds the hash of the first password
C12_Witness ==
  \E c \in Calls :
    /\ RegisterDone(c) /\ calls[c].result = Err(UserAlreadyExists)
    /\ calls[c].password = "password456"
    /\ adapter.users[calls[c].email].hashedPassword = hashPassword("password123", 1)

\* C13: the users map holds one record per email, under its own email and
\* with an id of its own; two register calls for one email never both
\* succeed, and a register that succeeded returned the id of the record
\* the store holds.
C13_OneUserPerEmail ==
  /\ \A e \in DOMAIN adapter.users : adapter.users[e].email = e
  /\ \A e, f \in DOMAIN adapter.users :
       adapter.users[e].id = adapter.users[f].id => e = f
  /\ \A c, d \in Calls :
       (c # d /\ RegisterDone(c) /\ RegisterDone(d) /\ calls[c].email = calls[d].email)
       => ~(Succeeded(c) /\ Succeeded(d))
  /\ \A c \in Calls :
       (RegisterDone(c) /\ Succeeded(c))
       => /\ calls[c].email \in DOMAIN adapter.users
          /\ adapter.users[calls[c].email].id = calls[c].result.userId

\* two registers for one email both passed the lookup; createUser let one
\* through and refused the other
C13_Witness ==
  \E c, d \in Calls :
    /\ c # d /\ RegisterDone(c) /\ RegisterDone(d)
    /\ calls[c].email = calls[d].email
    /\ Succeeded(c)
    /\ calls[d].result = Err("User with this email already exists")

\* C14: after a register has succeeded, findUserByEmail of its email
\* returns a user with that email, whose hashedPassword verifies against
\* the password given, is not the password string, and whose id is the
\* userId the call returned.
C14_RegisterStoresHash ==
  \A c \in Calls :
    (RegisterDone(c) /\ Succeeded(c))
    => LET user == findUserByEmail(adapter, calls[c].email)
       IN /\ user # NoUser
          /\ user.email = calls[c].email
          /\ verifyPassword(user.hashedPassword, calls[c].password)
          /\ user.hashedPassword # RawString(calls[c].password)
          /\ user.id = calls[c].result.userId

\* a register succeeded and a login with the same password passed its
\* password check against the stored hash
C14_Witness ==
  \E c, d \in Calls :
    /\ RegisterDone(c) /\ Succeeded(c) /\ Len(calls[c].password) >= MinPasswordLen
    /\ calls[d].op = "login" /\ Succeeded(d) /\ calls[d].email = calls[c].email
    /\ calls[d].verified = <<adapter.users[calls[c].email].hashedPassword>>

OwnedBy(a, userId) == {k \in DOMAIN a.refreshTokens : a.refreshTokens[k].userId = userId}

\* C15: in every state of the store and for every user id,
\* revokeAllUserSessions(userId) leaves no token record owned by userId
\* valid, and leaves the records, and the validity of every token owned by
\* another user, as they were.
C15_RevokeAllFrame ==
  \A userId \in StoreUserIds :
    LET after == revokeAllUserSessions(adapter, userId)
    IN /\ after.refreshTokens = adapter.refreshTokens
       /\ after.users = adapter.users
       /\ \A k \in OwnedBy(adapter, userId) : ~isRefreshTokenValid(after, k, now)
       /\ \A k \in DOMAIN adapter.refreshTokens \ OwnedBy(adapter, userId) :
            isRefreshTokenValid(after, k, now) = isRefreshTokenValid(adapter, k, now)

\* revokeAllUserSessions has revoked the token of one user while the token
\* of the other is still valid
C15_Witness ==
  /\ direct.op = "revokeAllUserSessions"
  /\ \E k \in OwnedBy(adapter, direct.userId) :
       k \in adapter.revokedTokens /\ adapter.refreshTokens[k].expiresAt >= now
  /\ \E k \in DOMAIN adapter.refreshTokens :
       adapter.refreshTokens[k].userId # direct.userId
         /\ isRefreshTokenValid(adapter, k, now)

\* C16: a step that takes a token string out of the revoked set is a
\* saveRefreshToken of that string that succeeded; no other method of the
\* store, and no passing of time, clears a revocation.
C16_RevocationMonotonic ==
  [][\A k \in adapter.revokedTokens :
       k \notin adapter'.revokedTokens
       => /\ direct'.op = "saveRefreshToken"
          /\ direct'.token = k
          /\ direct'.err = ""]_vars

\* a revoked token string was saved again and is valid
C16_Witness ==
  /\ direct.op = "saveRefreshToken" /\ direct.revoked /\ direct.err = ""
  /\ isRefreshTokenValid(adapter, direct.token, now)

\* what the claim takes a valid token to be: a record, not revoked, with
\* expiresAt strictly after the current instant
LiveStrictly(a, token, t) ==
  /\ token \in DOMAIN a.refreshTokens
  /\ token \notin a.revokedTokens
  /\ a.refreshTokens[token].expiresAt > t

\* C17: isRefreshTokenValid(token) is true exactly when the token has a
\* record, is not revoked and its expiresAt is strictly after the current
\* instant.
C17_ValidIffFuture ==
  \A token \in StoreTokens :
    isRefreshTokenValid(adapter, token, now) = LiveStrictly(adapter, token, now)

\* C18 as stated: revoking twice leaves the state of revoking once, and
\* revoking a token string that has no record leaves the store as it was.
C18_RevokeAbsentNoChange ==
  [][(direct' # direct /\ direct'.op = "revokeRefreshToken")
       => /\ revokeRefreshToken(adapter', direct'.token) = adapter'
          /\ direct'.token \notin DOMAIN adapter.refreshTokens
               => adapter' = adapter]_vars

\* C18, amended: revoking twice leaves the state of revoking once, and
\* revoking a token string that has no record changes no user, no token
\* record and no answer of isRefreshTokenValid; the string joins the
\* revoked set, and a later save of it is valid all the same.
C18_RevokeAbsentKeepsRecords ==
  \A token \in StoreTokens :
    LET once == revokeRefreshToken(adapter, token)
    IN /\ revokeRefreshToken(once, token) = once
       /\ token \notin DOMAIN adapter.refreshTokens
            => /\ once.users = adapter.users
               /\ once.refreshTokens = adapter.refreshTokens
               /\ once.revokedTokens = adapter.revokedTokens \cup {token}
               /\ \A k \in StoreTokens :
                    isRefreshTokenValid(once, k, now) = isRefreshTokenValid(adapter, k, now)
               /\ \A userId \in StoreUserIds :
                    LET saved == saveRefreshToken(once, userId, token, now + 1)
                        fresh == saveRefreshToken(adapter, userId, token, now + 1)
                    IN /\ saved.err = fresh.err
                       /\ saved.err = "" => saved.adapter = fresh.adapter

\* a token string with no record was revoked directly, and revoked again
C18_Witness ==
  /\ direct.op = "revokeRefreshToken" /\ direct.revoked
  /\ direct.token \notin DOMAIN adapter.refreshTokens
  /\ direct.token \in adapter.revokedTokens
  /\ DOMAIN adapter.refreshTokens # {}

\* the secret verifyJWT and the sign functions read for a kind
SecretOf(kind) ==
  IF kind = "access" THEN env.ACCESS_TOKEN_SECRET ELSE env.REFRESH_TOKEN_SECRET
Deficient(kind) == EncodedLength(SecretOf(kind)) < MinSecretLen

C20_ConfigErrorPropagates ==
  \A c \in Calls :
    /\ (RefreshDone(c) /\ TokenLen(calls[c].token) >= MinTokenLen /\ Deficient("refresh"))
       => /\ calls[c].result = Err(SecretError("refresh"))
          /\ calls[c].result.error \notin {InvalidRefreshToken, SessionRevoked}
    /\ (calls[c].op = "login" /\ calls[c].pc = "done"
          /\ calls[c].verified = <<hashPassword(calls[c].password, 1)>>
          /\ (Deficient("access") \/ Deficient("refresh")))
       => calls[c].result =
            Err(SecretError(IF Deficient("access") THEN "access" ELSE "refresh"))

IssuesTokens == {"login", "refresh"}

\* C21: the step in which a login or a refresh returns either returns an
\* access token and a refresh token, the refresh token then valid in the
\* store under the user the token names, or returns an error and no token.
C21_NoPartialSuccess ==
  [][\A c \in Calls :
       (calls[c].op \in IssuesTokens /\ calls[c].pc # "done" /\ calls'[c].pc = "done")
       => IF calls'[c].result.status = "ok"
          THEN /\ calls'[c].result.accessToken # NoToken
               /\ calls'[c].result.refreshToken # NoToken
               /\ isRefreshTokenValid(adapter', calls'[c].result.refreshToken, now')
               /\ adapter'.refreshTokens[calls'[c].result.refreshToken].userId
                    = calls'[c].result.refreshToken.userId
          ELSE /\ calls'[c].result.status = "error"
               /\ calls'[c].result.error # ""
               /\ calls'[c].result.accessToken = NoToken
               /\ calls'[c].result.refreshToken = NoToken]_vars

\* a login failed after its access token had been signed: the refresh
\* secret is deficient, and the call returned the error and no token
C21_Witness ==
  \E c \in Calls :
    /\ calls[c].op = "login" /\ calls[c].pc = "done"
    /\ ~Deficient("access") /\ Deficient("refresh")
    /\ calls[c].result = Err(SecretError("refresh"))
    /\ nextJti > 1

StartedBy(c, op) == Free(c) /\ calls'[c] # calls[c] /\ calls'[c].op = op
Refused(c, message) ==
  /\ calls'[c].pc = "done"
  /\ calls'[c].result = Err(message)
  /\ calls'[c].verified = <<>>
  /\ adapter' = adapter /\ nextUid' = nextUid /\ nextJti' = nextJti

\* C22: a register with a malformed email or a password under 8
\* characters, a login with a malformed email or an empty password, and a
\* refresh with a token under 10 characters end in the step that starts
\* them, with the message of the rule, no lookup, hash, verification or
\* signature made and the store as it was.
C22_ValidationFirst ==
  [][\A c \in Calls :
       /\ (StartedBy(c, "register") /\ calls'[c].email = BadEmail)
          => Refused(c, "Invalid email")
       /\ (StartedBy(c, "register") /\ calls'[c].email # BadEmail
             /\ Len(calls'[c].password) < 8)
          => Refused(c, "Password must be at least 8 characters")
       /\ (StartedBy(c, "login") /\ calls'[c].email = BadEmail)
          => Refused(c, "Invalid email")
       /\ (StartedBy(c, "login") /\ calls'[c].email # BadEmail
             /\ calls'[c].password = "")
          => Refused(c, "Password is required")
       /\ (StartedBy(c, "refresh") /\ TokenLen(calls'[c].token) < 10)
          => Refused(c, "Refresh token is required")]_vars

\* a register with a short password, then a refresh with a short token,
\* were refused with an empty store
C22_Witness ==
  \E c, d \in Calls :
    /\ calls[c].op = "refresh" /\ calls[c].result = Err("Refresh token is required")
    /\ calls[d].op = "register"
    /\ calls[d].result = Err("Password must be at least 8 characters")
    /\ adapter = EmptyAdapter

\* The token strings whose validity a step can be asked about
KnownTokens(a) ==
  DOMAIN a.refreshTokens \cup a.revokedTokens \cup {StaleToken, GarbageToken, ForgedToken}

\* Call c takes a step of a refresh that is not the breach-detection branch
RefreshStep(c, pc) ==
  /\ calls[c].op = "refresh" /\ calls[c].pc = pc /\ calls'[c] # calls[c]

\* C30: a successful refresh(old) changes the store only by revoking old
\* and adding one live record for the new refresh token, owned by the
\* user who owned old.  Step by step: revokeRefreshToken adds old to the
\* revoked set and nothing else, saveRefreshToken adds the one record and
\* nothing else, and the steps between them leave the store alone; the
\* validity of every other token and every user record stay as they were.
C30_RefreshFrame ==
  [][\A c \in Calls :
       LET old == calls[c].token
           new == calls[c].refreshToken
       IN /\ (RefreshStep(c, "verifyJWT") \/ RefreshStep(c, "isRefreshTokenValid")
               \/ RefreshStep(c, "signAccessToken") \/ RefreshStep(c, "signRefreshToken"))
             => adapter' = adapter
          /\ RefreshStep(c, "revokeRefreshToken")
             => /\ adapter'.users = adapter.users
                /\ adapter'.refreshTokens = adapter.refreshTokens
                /\ adapter'.revokedTokens = adapter.revokedTokens \cup {old}
                /\ ~isRefreshTokenValid(adapter', old, now')
                /\ \A t \in KnownTokens(adapter') \ {old} :
                     isRefreshTokenValid(adapter', t, now')
                       = isRefreshTokenValid(adapter, t, now)
          /\ RefreshStep(c, "saveRefreshToken")
             => /\ calls'[c].result.status = "ok"
                /\ calls'[c].result.refreshToken = new
                /\ adapter'.users = adapter.users
                /\ adapter'.revokedTokens = adapter.revokedTokens
                /\ new \notin DOMAIN adapter.refreshTokens
                /\ DOMAIN adapter'.refreshTokens = DOMAIN adapter.refreshTokens \cup {new}
                /\ \A t \in DOMAIN adapter.refreshTokens :
                     adapter'.refreshTokens[t] = adapter.refreshTokens[t]
                /\ adapter'.refreshTokens[new].userId = adapter.refreshTokens[old].userId
                /\ isRefreshTokenValid(adapter', new, now')
                /\ ~isRefreshTokenValid(adapter', old, now')
                /\ \A t \in KnownTokens(adapter') \ {old, new} :
                     isRefreshTokenValid(adapter', t, now')
                       = isRefreshTokenValid(adapter, t, now)]_vars

\* A refresh has succeeded while another token of the same user was live,
\* and that token is still live
C30_Witness ==
  \E c \in Calls :
    /\ RefreshDone(c) /\ Succeeded(c)
    /\ ~isRefreshTokenValid(adapter, calls[c].token, now)
    /\ isRefreshTokenValid(adapter, calls[c].result.refreshToken, now)
    /\ \E t \in DOMAIN adapter.refreshTokens \ {calls[c].token, calls[c].result.refreshToken} :
         /\ adapter.refreshTokens[t].userId = adapter.refreshTokens[calls[c].token].userId
         /\ isRefreshTokenValid(adapter, t, now)

\* C29: a successful login returns success, accessToken, refreshToken and
\* a user object describing the authenticated user.
C29_LoginReturnsUser ==
  \A c \in Calls :
    (calls[c].op = "login" /\ Succeeded(c))
    => /\ calls[c].result.accessToken # NoToken
       /\ calls[c].result.refreshToken # NoToken
       /\ calls[c].result.user # NoUser
       /\ calls[c].result.user.email = calls[c].email

\* C24: over an adapter that extends BaseAdapter with exactly the methods
\* the README lists as required, no register, login or refresh ends in the
\* error of a BaseAdapter method that was not overridden.
C24_ReadmeAdapterSuffices ==
  \A c \in Calls :
    (adapter.implements = ReadmeMethods /\ calls[c].pc = "done"
       /\ calls[c].op \in {"register", "login", "refresh"})
    => calls[c].result.error \notin {NotImplemented(m) : m \in AdapterMethods}

\* C25: authService.revokeRefreshToken(token) with a live refresh token
\* completes without error and leaves the token not valid in the store (so
\* that a refresh with it, which checks that validity, returns no new pair).
C25_ServiceLogout ==
  [][\A c \in Calls :
       (StartedBy(c, "revokeRefreshToken")
          /\ isRefreshTokenValid(adapter, calls'[c].token, now))
       => /\ calls'[c].pc = "done"
          /\ calls'[c].result.status = "ok"
          /\ ~isRefreshTokenValid(adapter', calls'[c].token, now')]_vars

\* The verifyJWT call of this step was given a token of the matching kind
Verified(kind) ==
  /\ codec'.last # codec.last
  /\ codec'.last.kind = kind /\ codec'.last.type = kind
TTLMs(kind) == (IF kind = "access" THEN AccessTTLSec ELSE RefreshTTLSec) * MsPerSec
Elapsed == codec'.last.verifiedAt - codec'.last.signedAt
\* Call c's saveRefreshToken has returned and the call its result
Saved(c) ==
  /\ calls[c].op \in IssuesTokens /\ calls[c].pc = "saveRefreshToken"
  /\ calls'[c].pc = "done" /\ calls'[c].result.status = "ok"

\* C23: a token from signAccessToken (signRefreshToken) is accepted by
\* verifyJWT of its kind while less than 15 minutes (7 days) have passed
\* since it was signed and rejected from then on, and the record saved by
\* login and by refresh has expiresAt = save time + 7 days.
C23_ExpiryWindows ==
  [][/\ \A kind \in {"access", "refresh"} :
          Verified(kind) => (codec'.last.err = "" <=> Elapsed < TTLMs(kind))
     /\ \A c \in Calls :
          Saved(c) => adapter'.refreshTokens[calls[c].refreshToken].expiresAt
                        = now + RefreshTTLMs]_vars

\* C23 as the code has it: iat and exp are whole seconds, so the token is
\* accepted exactly while fewer than 900 (604800) second boundaries lie
\* between signing and verification: always while no more than 15 minutes
\* (7 days) less one second have passed, never from 15 minutes (7 days)
\* on, and in the last second before that depending on where in its second
\* the token was signed.  The saved record's expiresAt is exact.
C23_ExpiryInWholeSeconds ==
  [][/\ \A kind \in {"access", "refresh"} :
          Verified(kind)
          => /\ codec'.last.err = ""
                  <=> Epoch(codec'.last.verifiedAt) - Epoch(codec'.last.signedAt)
                        < TTLMs(kind) \div MsPerSec
             /\ Elapsed >= TTLMs(kind) => codec'.last.err = "Invalid token"
             /\ Elapsed <= TTLMs(kind) - MsPerSec => codec'.last.err = ""
             /\ codec'.last.err = "" => codec'.last.payload = PayloadOf(codec'.last.token)
     /\ \A c \in Calls :
          Saved(c) => adapter'.refreshTokens[calls[c].refreshToken].expiresAt
                        = now + RefreshTTLMs]_vars

\* An access token was rejected less than 15 minutes after it was signed,
\* and a login's record is in the store with the expiry given at the save
C23_Witness ==
  /\ codec.last.kind = "access" /\ codec.last.type = "access"
  /\ codec.last.err = "Invalid token"
  /\ codec.last.verifiedAt - codec.last.signedAt < AccessTTLSec * MsPerSec
  /\ \E t \in DOMAIN adapter.refreshTokens : adapter.refreshTokens[t].expiresAt > RefreshTTLMs

\* C26: authenticate, given 'Bearer <t>' with t an unexpired access token
\* that login returned, attaches the token's payload to req.user and calls
\* next exactly once, without a 401 or 403 response.
C26_AuthenticateAcceptsLoginToken ==
  (/\ http.mw = "authenticate"
   /\ http.header.scheme = "Bearer"
   /\ http.header.token.form = "jwt"
   /\ http.header.token.sig = env.ACCESS_TOKEN_SECRET
   /\ http.header.token.exp > Epoch(http.at))
  => /\ http.nexts = 1
     /\ http.status = 0
     /\ http.user.userId = http.header.token.userId
     /\ http.user.role = http.header.token.role

\* C27: authorize(...allowedRoles) calls next exactly when req.user is set
\* and its role is one of allowedRoles; it responds 401 'Unauthorized' when
\* req.user is missing and 403 'Forbidden' when the role is not allowed,
\* without calling next, and sends no response when it calls next.
C27_Authorize ==
  http.mw = "authorize"
  => /\ http.nexts \in {0, 1}
     /\ http.nexts = 1 <=> (http.user # NoReqUser /\ http.user.role \in http.allowedRoles)
     /\ http.nexts = 1 => http.status = 0
     /\ http.user = NoReqUser
        => http.status = 401 /\ http.error = "Unauthorized" /\ http.nexts = 0
     /\ (http.user # NoReqUser /\ http.user.role \notin http.allowedRoles)
        => http.status = 403 /\ http.error = "Forbidden" /\ http.nexts = 0

\* authorize has refused an authenticated user whose role is not allowed
C27_Witness ==
  /\ http.mw = "authorize"
  /\ http.user # NoReqUser /\ http.user.role = "user"
  /\ http.allowedRoles = {"admin"}
  /\ http.status = 403 /\ http.nexts = 0

InFlight(c) == calls[c].pc \notin {"idle", "done"}
\* The position of an await in its handler
StepRank(call) ==
  CASE call.pc \in {"findUserByEmail", "verifyJWT"} -> 1
    [] call.pc \in {"hashPassword", "verifyPassword", "isRefreshTokenValid"} -> 2
    [] call.pc \in {"createUser", "revokeAllUserSessions", "revokeRefreshToken"} -> 3
    [] call.pc = "signAccessToken" -> 4
    [] call.pc = "signRefreshToken" -> 5
    [] call.pc = "saveRefreshToken" -> 6
    [] call.pc = "done" -> 7
    [] OTHER -> 0

\* C28: every register, login and refresh call in flight eventually
\* completes with a result or an error, whatever the other call in flight
\* does; a call in flight can always take its next step (it waits on no
\* other call, so no deadlock), and every step of a call moves it forward
\* in its handler (no step is retried).
C28_Completes ==
  /\ \A c \in Calls :
       InFlight(c) ~> (calls[c].pc = "done" /\ calls[c].result.status \in {"ok", "error"})
  /\ [](\A c \in Calls : InFlight(c) => ENABLED Steps(c))
  /\ [][\A c \in Calls :
          (InFlight(c) /\ calls'[c] # calls[c])
          => StepRank(calls'[c]) > StepRank(calls[c])]_vars

\* Two refreshes of the same token have both run to a successful end, which
\* takes an interleaving of their steps
C28_Witness ==
  /\ RefreshDone(1) /\ RefreshDone(2)
  /\ Succeeded(1) /\ Succeeded(2)
  /\ calls[1].token = calls[2].token

\* C31: revokeRefreshToken(token) on the store makes isRefreshTokenValid(token)
\* false and changes the validity of no other token, other live tokens of
\* the same user included.
C31_LogoutSingleToken ==
  [][(direct' # direct /\ direct'.op = "revokeRefreshToken")
     => /\ ~isRefreshTokenValid(adapter', direct'.token, now')
        /\ \A t \in (StoreTokens \cup KnownTokens(adapter')) \ {direct'.token} :
             isRefreshTokenValid(adapter', t, now') = isRefreshTokenValid(adapter, t, now)
        /\ adapter'.users = adapter.users
        /\ adapter'.refreshTokens = adapter.refreshTokens]_vars

\* A live token has been revoked while another token of the same user is
\* live and a third string stays revoked
C31_Witness ==
  /\ direct.op = "revokeRefreshToken" /\ direct.token = StaleToken /\ ~direct.revoked
  /\ StaleToken \in DOMAIN adapter.refreshTokens
  /\ GarbageToken \in DOMAIN adapter.refreshTokens
  /\ adapter.refreshTokens[StaleToken].userId = adapter.refreshTokens[GarbageToken].userId
  /\ adapter.refreshTokens[StaleToken].expiresAt >= now
  /\ ~isRefreshTokenValid(adapter, StaleToken, now)
  /\ isRefreshTokenValid(adapter, GarbageToken, now)

\* C32: revokeAllUserSessions(userId) applied twice gives the store that
\* applying it once gives, and for a userId that owns no record it raises
\* no error and gives the store it was applied to.
C32_RevokeAllIdempotent ==
  /\ \A userId \in StoreUserIds :
       LET once == revokeAllUserSessions(adapter, userId)
           twice == revokeAllUserSessions(once, userId)
       IN /\ twice = once
          /\ OwnedBy(adapter, userId) = {} => once = adapter
  /\ direct.op = "revokeAllUserSessions" => direct.err = ""

\* revokeAllUserSessions has been called for a user without records while
\* the other user has a live and a revoked token
C32_Witness ==
  /\ direct.op = "revokeAllUserSessions"
  /\ OwnedBy(adapter, direct.userId) = {}
  /\ \E k, j \in DOMAIN adapter.refreshTokens :
       /\ isRefreshTokenValid(adapter, k, now)
       /\ j \in adapter.revokedTokens

\* C33: saveRefreshToken fails with 'Invalid parameters' when userId or
\* token is not a string or expiresAt is not a Date, and with 'Token too
\* short' when the token has fewer than 10 characters; in each case the
\* store is as it was: no record added, no revocation cleared.
C33_SaveRejectsBadInput ==
  [][(direct' # direct /\ direct'.op = "saveRefreshToken")
     => LET illTyped == \/ direct'.userId = NumberId
                        \/ direct'.token = NumberToken
                        \/ direct'.expiresAt = NotADate
            short == direct'.token.form = "short"
        IN /\ illTyped => direct'.err = "Invalid parameters"
           /\ (~illTyped /\ short) => direct'.err = "Token too short"
           /\ (illTyped \/ short)
              => /\ adapter' = adapter
                 /\ \A t \in StoreTokens \cup {NumberToken} :
                      isRefreshTokenValid(adapter', t, now')
                        = isRefreshTokenValid(adapter, t, now)
           /\ ~(illTyped \/ short) => direct'.err = ""]_vars

\* A save with a string for expiresAt has failed for a token that has a
\* record and is revoked, and the token is still revoked
C33_Witness ==
  /\ direct.op = "saveRefreshToken" /\ direct.err = "Invalid parameters"
  /\ direct.expiresAt = NotADate /\ direct.revoked
  /\ direct.token \in DOMAIN adapter.refreshTokens
  /\ direct.token \in adapter.revokedTokens

\* The token of the request is one the middleware's key and schema accept
WellSigned(token) ==
  /\ token.form = "jwt"
  /\ token.sig = importJWK(env.ACCESS_TOKEN_SECRET)
  /\ userPayloadSchema(ClaimsOf(token)) # NoReqUser

C35_ExpiredGets401 ==
  (http.mw = "authenticate" /\ http.header.scheme = "Bearer")
  => /\ (WellSigned(http.header.token) /\ http.header.token.exp <= Epoch(http.at))
        => http.status = 401 /\ http.error = "Unauthorized"
     /\ ~WellSigned(http.header.token)
        => http.status = 403 /\ http.error = "Forbidden"

\* C36: whatever register, login, refresh and logout do, a refresh token
\* string that is revoked stays revoked and never becomes valid again, and
\* every saveRefreshToken of login and refresh is given a string that was
\* never saved or revoked before.
C36_RevocationPermanent ==
  [][/\ \A t \in adapter.revokedTokens :
          t \in adapter'.revokedTokens /\ ~isRefreshTokenValid(adapter', t, now')
     /\ \A c \in Calls :
          Saved(c) => calls[c].refreshToken
                        \notin DOMAIN adapter.refreshTokens \cup adapter.revokedTokens]_vars

\* A token of a user is revoked and a token the same user was issued
\* later is live
C36_Witness ==
  \E t \in adapter.revokedTokens, u \in DOMAIN adapter.refreshTokens :
    /\ t \in DOMAIN adapter.refreshTokens
    /\ adapter.refreshTokens[u].userId = adapter.refreshTokens[t].userId
    /\ u.jti > t.jti
    /\ isRefreshTokenValid(adapter, u, now)

\* C37: when a refresh for user u that has passed its validity check is
\* still in flight while another refresh for u completes
\* revokeAllUserSessions(u), the token it goes on to save is not valid once
\* it has finished (no token of u is).
C37_SweepHolds ==
  [][\A c \in Calls :
       (RefreshStep(c, "saveRefreshToken") /\ c \in swept)
       => ~isRefreshTokenValid(adapter', calls[c].refreshToken, now')]_vars

\* C38: no step of a refresh call made with a token signed for user A
\* changes the validity of a refresh token owned by another user, whether
\* the call succeeds, fails verification or takes the replay branch.
C38_OwnerConfined ==
  [][\A c \in Calls :
       (calls[c].op = "refresh" /\ calls'[c] # calls[c])
       => \A t \in DOMAIN adapter'.refreshTokens :
            adapter'.refreshTokens[t].userId # calls[c].token.userId
            => /\ t \in DOMAIN adapter.refreshTokens
               /\ adapter.refreshTokens[t] = adapter'.refreshTokens[t]
               /\ isRefreshTokenValid(adapter', t, now')
                    = isRefreshTokenValid(adapter, t, now)]_vars

\* A refresh has taken the replay branch and revoked a token of its
\* token's user while a token of another user is live
C38_Witness ==
  \E c \in Calls :
    /\ RefreshDone(c) /\ calls[c].result.error = SessionRevoked
    /\ \E t \in OwnedBy(adapter, calls[c].token.userId) : t \in adapter.revokedTokens
    /\ \E t \in DOMAIN adapter.refreshTokens :
         /\ adapter.refreshTokens[t].userId # calls[c].token.userId
         /\ isRefreshTokenValid(adapter, t, now)

\* C39: for every refresh token that login or refresh has saved, the
\* persisted expiresAt is not earlier than the exp signed into the token,
\* so whenever the store holds the token expired, verifyJWT(token,
\* 'refresh') fails.
C39_RecordOutlivesToken ==
  \A t \in DOMAIN adapter.refreshTokens :
    /\ adapter.refreshTokens[t].expiresAt >= t.exp * MsPerSec
    /\ adapter.refreshTokens[t].expiresAt < now
       => verifyJWT(t, "refresh", env, now).err = "Invalid token"

\* The record of a saved token has run out, verifyJWT rejects that token,
\* and the record of a token saved later than it was signed outlives the
\* token's exp
C39_Witness ==
  /\ \E t \in DOMAIN adapter.refreshTokens :
       /\ adapter.refreshTokens[t].expiresAt < now
       /\ verifyJWT(t, "refresh", env, now).err = "Invalid token"
  /\ \E t \in DOMAIN adapter.refreshTokens :
       adapter.refreshTokens[t].expiresAt > t.exp * MsPerSec

\* C40: a refresh that has passed the validity check and then fails at a
\* later step returns no token and leaves its old token revoked; and no
\* step of a refresh other than the save of a successful one makes a
\* token live or clears a revocation.
C40_FailedRefreshAddsNothing ==
  [][\A c \in Calls :
       (calls[c].op = "refresh" /\ calls'[c] # calls[c])
       => /\ (calls[c].pc \in {"signAccessToken", "signRefreshToken", "saveRefreshToken"}
               /\ calls'[c].pc = "done" /\ calls'[c].result.status # "ok")
             => /\ calls'[c].result.accessToken = NoToken
                /\ calls'[c].result.refreshToken = NoToken
                /\ calls[c].token \in adapter'.revokedTokens
                /\ ~isRefreshTokenValid(adapter', calls[c].token, now')
                /\ calls[c].refreshToken # NoToken
                   => calls[c].refreshToken \notin DOMAIN adapter'.refreshTokens
          /\ ~(calls'[c].pc = "done" /\ calls'[c].result.status = "ok")
             => /\ adapter.revokedTokens \subseteq adapter'.revokedTokens
                /\ \A t \in DOMAIN adapter'.refreshTokens :
                     isRefreshTokenValid(adapter', t, now')
                     => isRefreshTokenValid(adapter, t, now)]_vars

\* A refresh has failed at signRefreshToken, after the access token was
\* signed, and another has failed at signAccessToken; both old tokens are
\* revoked
C40_Witness ==
  /\ \E c \in Calls :
       /\ RefreshDone(c) /\ calls[c].result.error = SecretError("refresh")
       /\ calls[c].token \in adapter.revokedTokens
  /\ \E c \in Calls :
       /\ RefreshDone(c) /\ calls[c].result.error = SecretError("access")
       /\ calls[c].token \in adapter.revokedTokens

====
